---- MODULE Spec2Model ----
\* A model of sql-table-sync: ExecJob (one source reconciled into N targets by
\* concurrent workers) and PingJob (timeout-bounded connectivity probe).
\* Tables are sets of rows; a row is a sequence of column values aligned with
\* the job's column list.  Every connect, query and statement may fail.
EXTENDS Integers, Sequences, FiniteSets, TLC

\* ---------------------------------------------------------------- bounds
MaxRows == 2     \* rows per seeded table (single-call scenario)
TwiceRows == 1   \* rows per seeded table (repeated-call scenario)
NumTargets == 2  \* targets of the job in the fan-out scenario
MaxRuns == 2     \* ExecJob calls per behaviour (repeated-call scenario)
MaxKeys == 4     \* primary-key columns of a job handed to validation

\* Column values the tables are seeded with.
KeyVals == {0, 1}     \* values of a key column
FanKeyVals == {0}     \* values of a key column in the fan-out scenario
Vals == {0, 1}        \* values of any other column

\* ---------------------------------------------------------------- values
Nil == -1                 \* Go's nil interface value (unused tuple component)
NilSlice == << >>         \* Go's nil []any (value of a missing map key)
NoError == "nil"
EmptyChecksum == << >>    \* the "" returned next to an error

Range(s) == {s[i] : i \in DOMAIN s}

\* ---------------------------------------------------------------- config
TableConfigOf(dsn) == [Label |-> "", Driver |-> "sqlite3", DSN |-> dsn, Table |-> "users"]

SourceConfig == TableConfigOf("source")

TargetConfig(i) == TableConfigOf("target" \o ToString(i))

\* Column list / primary-key list pairs (the second mirrors
\* TestExecJob_multiple_primary_key: key order differs from column order).
Shapes ==
  { [Columns |-> <<"id", "name">>, PrimaryKeys |-> <<"id">>],
    [Columns |-> <<"name", "age", "color">>, PrimaryKeys |-> <<"age", "name">>],
    [Columns |-> <<"a", "b", "c", "d">>, PrimaryKeys |-> <<"c", "a", "b">>] }

TwiceShapes ==
  { [Columns |-> <<"id", "name">>, PrimaryKeys |-> <<"id">>],
    [Columns |-> <<"name", "age", "color">>, PrimaryKeys |-> <<"age", "name">>] }

FanShapes == { [Columns |-> <<"id", "name">>, PrimaryKeys |-> <<"id">>] }

JobConfigOf(shape, n) ==
  [PrimaryKeys |-> shape.PrimaryKeys, Columns |-> shape.Columns,
   Source |-> SourceConfig, Targets |-> [i \in 1..n |-> TargetConfig(i)]]

JobNames == {"users"}

\* The job names of a configuration with two jobs.
TwoJobNames == {"users", "pets"}

CallNames == {"users", "nosuch"}

\* ---------------------------------------------------------------- state
VARIABLES
  config,    \* Config: [Jobs : job name -> JobConfig]
  scen,      \* scenario limits: [keys, rows, runs]
  db,        \* DSN -> set of rows: the content of each physical table
  seeded,    \* the tables have been populated by the environment
  pc,        \* position of the caller's thread inside ExecJob / PingJob
  callName,  \* the jobName argument of the latest call
  cur,       \* name of the job the running call resolved
  src,       \* syncTargets' locals: [entries, map, checksum] of the source
  wpc,       \* DSN -> position of the target's worker goroutine
  tsum,      \* DSN -> targetChecksum local of syncTarget
  stmts,     \* DSN -> [deletes, updates, inserts] still to execute
  out,       \* DSN -> the SyncResult the worker is about to send
  wg,        \* sync.WaitGroup counter
  resultChan,\* buffered channel of SyncResult / PingResult
  open,      \* DSN -> number of open connection pools
  rets,      \* sequence of the values returned by the calls so far
  chk,       \* DSN -> position of the ping check goroutine
  pingChan,  \* DSN -> content of pingWithTimeout's one-slot channel
  ppc,       \* DSN -> position of the target's ping worker
  pres,      \* PingJob's results slice
  timer,     \* DSN -> the context timer of pingWithTimeout: off, armed or fired
  tables,    \* the DSNs whose table exists with the configured columns
  all,       \* the loop of ExecAllJobs / PingAllJobs: [op, todo, cur, results, errors]
  fn,        \* arguments and results of the functions evaluated on their own
  stat,      \* history: DSN -> [conn, query] attempts and the fault met in the current
             \* call; for a ping, which of timer and result came first and which
             \* were ready when the select chose, and whether the table existed
  log,       \* history: DSN -> statements executed in the current call
  db0,       \* history: table contents when the current call started
  passOut    \* history: DSN -> what the target's pass returned

vars == <<config, scen, db, seeded, pc, callName, cur, src, wpc, tsum, stmts, out, wg,
          resultChan, open, rets, chk, pingChan, ppc, pres, timer, tables, all, fn,
          stat, log, db0, passOut>>

syncVars == <<src, wpc, tsum, stmts, out, wg, resultChan>>

pingVars == <<chk, pingChan, ppc, pres, timer>>

outerVars == <<tables, all, fn>>

histVars == <<stat, log, db0, passOut>>

Job == config.Jobs[cur]

TargetDSNs(job) == {job.Targets[i].DSN : i \in DOMAIN job.Targets}

\* ---------------------------------------------------------------- keys
\* JobConfig.getPrimaryKeyIndices: index in Columns of every primary key that
\* is a column (the map keeps the last index of a repeated column name).
getPrimaryKeyIndices(job) ==
  LET columnIndices(c) ==
        CHOOSE i \in DOMAIN job.Columns :
          /\ job.Columns[i] = c
          /\ \A k \in DOMAIN job.Columns : k > i => job.Columns[k] # c
      present == SelectSeq(job.PrimaryKeys, LAMBDA pk : pk \in Range(job.Columns))
  IN [n \in 1..Len(present) |-> columnIndices(present[n])]

\* The primaryKeyTuple built in getEntries: component i is the value of the
\* i-th primary-key column; components past the key's arity stay nil.
pkTuple(cols, primaryKeyIndices) ==
  [First  |-> IF Len(primaryKeyIndices) >= 1 THEN cols[primaryKeyIndices[1]] ELSE Nil,
   Second |-> IF Len(primaryKeyIndices) >= 2 THEN cols[primaryKeyIndices[2]] ELSE Nil,
   Third  |-> IF Len(primaryKeyIndices) >= 3 THEN cols[primaryKeyIndices[3]] ELSE Nil]

KeyOf(job, row) == pkTuple(row, getPrimaryKeyIndices(job))

TupleComponent(key, i) ==
  CASE i = 1 -> key.First
    [] i = 2 -> key.Second
    [] i = 3 -> key.Third
    [] OTHER -> Nil

\* A WHERE clause on the first primary-key column only.
whereClauseFirstOnly(key, columns, primaryKeyIndices) ==
  IF Len(primaryKeyIndices) = 0 THEN {}
  ELSE { <<columns[primaryKeyIndices[1]], key.First>> }

\* primaryKeyTuple.whereClause: the sq.Eq map, as a set of <<column, value>>.
whereClause(key, columns, primaryKeyIndices) ==
  LET n == IF Len(primaryKeyIndices) < 3 THEN Len(primaryKeyIndices) ELSE 3
      last(c) == CHOOSE i \in 1..n :
                   /\ columns[primaryKeyIndices[i]] = c
                   /\ \A k \in 1..n : k > i => columns[primaryKeyIndices[k]] # c
  IN { <<columns[primaryKeyIndices[i]],
         TupleComponent(key, last(columns[primaryKeyIndices[i]]))>> : i \in 1..n }

\* ---------------------------------------------------------------- tables
ColumnIndex(columns, c) == CHOOSE i \in DOMAIN columns : columns[i] = c

IsKeyColumn(job, i) == job.Columns[i] \in Range(job.PrimaryKeys)

\* The rows a table is seeded from: a key column holds a value of keyVals,
\* with at most one non-zero key component per row; any other column holds a
\* value of Vals.
RowUniverse(job, keyVals) ==
  LET idxs == getPrimaryKeyIndices(job)
  IN { r \in [DOMAIN job.Columns -> keyVals \cup Vals] :
         /\ \A i \in DOMAIN job.Columns :
              IF IsKeyColumn(job, i) THEN r[i] \in keyVals ELSE r[i] \in Vals
         /\ Cardinality({ n \in DOMAIN idxs : r[idxs[n]] # 0 }) <= 1 }

\* Tables of at most cap rows of universe in which the primary key is unique.
RECURSIVE TablesUpTo(_, _, _)
TablesUpTo(job, universe, cap) ==
  IF cap = 0 THEN { {} }
  ELSE LET smaller == TablesUpTo(job, universe, cap - 1)
       IN smaller \cup
          { p[1] \cup {p[2]} : p \in
              { p \in smaller \X universe :
                  \A q \in p[1] : KeyOf(job, q) # KeyOf(job, p[2]) } }

\* ORDER BY primaryKeys...: lexicographic order on the key columns.
RECURSIVE KeyLess(_, _, _, _)
KeyLess(r1, r2, idxs, i) ==
  IF i > Len(idxs) THEN FALSE
  ELSE \/ r1[idxs[i]] < r2[idxs[i]]
       \/ r1[idxs[i]] = r2[idxs[i]] /\ KeyLess(r1, r2, idxs, i + 1)

RECURSIVE OrderBy(_, _)
OrderBy(T, idxs) ==
  IF T = {} THEN << >>
  ELSE LET first == CHOOSE r \in T : \A q \in T : ~KeyLess(q, r, idxs, 1)
       IN <<first>> \o OrderBy(T \ {first}, idxs)

\* table.getEntries on success: the ordered row list and the map from key
\* tuple to row (a later row overwrites an earlier one under the same key).
getEntries(job, T) ==
  LET idxs == getPrimaryKeyIndices(job)
      entryList == OrderBy(T, idxs)
      keys == { pkTuple(entryList[i], idxs) : i \in DOMAIN entryList }
      lastOf(k) == CHOOSE i \in DOMAIN entryList :
                     /\ pkTuple(entryList[i], idxs) = k
                     /\ \A j \in DOMAIN entryList :
                          j > i => pkTuple(entryList[j], idxs) # k
  IN [entries |-> entryList, map |-> [k \in keys |-> entryList[lastOf(k)]]]

\* ---------------------------------------------------------------- checksum
RECURSIVE JoinTokens(_, _)
JoinTokens(seqs, i) ==
  IF i > Len(seqs) THEN << >>
  ELSE (IF i > 1 THEN <<",">> ELSE << >>) \o seqs[i] \o JoinTokens(seqs, i + 1)

\* json.Marshal of a [][]any of integers, as a token sequence.
jsonMarshal(data) ==
  LET rowTokens(r) ==
        <<"[">> \o JoinTokens([i \in DOMAIN r |-> <<ToString(r[i])>>], 1) \o <<"]">>
  IN <<"[">> \o JoinTokens([i \in DOMAIN data |-> rowTokens(data[i])], 1) \o <<"]">>

\* MD5 + hex encoding, taken to be collision-free on the inputs of one run.
md5Hex(bytes) == bytes

checksumData(data) == md5Hex(jsonMarshal(data))

\* The orders in which the engine can store (and, unasked, return) the rows
\* of a table.
RECURSIVE Orders(_)
Orders(T) ==
  IF T = {} THEN { << >> }
  ELSE UNION { { <<r>> \o s : s \in Orders(T \ {r}) } : r \in T }

\* The rows the engine returns, in the order of storage, when the query has
\* no ORDER BY.
fetchAllUnordered(heap, idxs) == heap

\* The fetchAll query of getEntries run on a table stored as heap:
\* SELECT columns FROM table ORDER BY primaryKeys.
fetchAll(heap, idxs) == OrderBy(Range(heap), idxs)

\* ---------------------------------------------------------------- statements
StmtInsert(key, columns, val) ==
  [op |-> "INSERT", key |-> key, where |-> {}, set |-> << >>, values |-> val]

StmtUpdate(key, where, set) ==
  [op |-> "UPDATE", key |-> key, where |-> where, set |-> set, values |-> << >>]

StmtDelete(key, where) ==
  [op |-> "DELETE", key |-> key, where |-> where, set |-> << >>, values |-> << >>]

Matches(job, row, where) ==
  \A p \in where : row[ColumnIndex(job.Columns, p[1])] = p[2]

ApplySet(job, row, set) ==
  [i \in DOMAIN row |->
     IF \E n \in DOMAIN set : set[n][1] = job.Columns[i]
     THEN LET n == CHOOSE n \in DOMAIN set :
                     /\ set[n][1] = job.Columns[i]
                     /\ \A m \in DOMAIN set : m > n => set[m][1] # job.Columns[i]
          IN set[n][2]
     ELSE row[i]]

\* The database rejects an INSERT whose primary key is already in the table.
StmtRejected(job, T, s) ==
  s.op = "INSERT" /\ \E r \in T : KeyOf(job, r) = KeyOf(job, s.values)

\* Effect of one executed statement on the table content.
ApplyStmt(job, T, s) ==
  CASE s.op = "INSERT" -> T \cup {s.values}
    [] s.op = "UPDATE" ->
         { IF Matches(job, r, s.where) THEN ApplySet(job, r, s.set) ELSE r : r \in T }
    [] s.op = "DELETE" -> { r \in T : ~Matches(job, r, s.where) }

\* reflect.DeepEqual on two []any values.
DeepEqual(a, b) == a = b

\* m[key] in Go: the zero value when the key is missing.
MapGet(m, key) == IF key \in DOMAIN m THEN m[key] ELSE NilSlice

MapDelete(m, key) == [k \in DOMAIN m \ {key} |-> m[k]]

\* The UPDATE built in syncTarget for one source row: every column that is
\* not a primary key is set, in column order.
BuildUpdate(job, key, val) ==
  LET idxs == getPrimaryKeyIndices(job)
      nonKey == SelectSeq([i \in DOMAIN job.Columns |-> i],
                          LAMBDA i : job.Columns[i] \notin Range(job.PrimaryKeys))
  IN StmtUpdate(key, whereClause(key, job.Columns, idxs),
                [n \in DOMAIN nonKey |-> <<job.Columns[nonKey[n]], val[nonKey[n]]>>])

\* The row comparison of syncTarget: the key is removed from targetMap first
\* and the source row is then compared with targetMap[key].
RowHasDiff(val, targetMap, key) ==
  ~DeepEqual(val, MapGet(MapDelete(targetMap, key), key))

\* The keys of targetMap when no key is ever removed from it.
LeftoverAll(sourceMap, targetMap) == DOMAIN targetMap

\* The keys left in targetMap after the loop over sourceMap, which removes
\* every key it finds in both maps.
Leftover(sourceMap, targetMap) == DOMAIN targetMap \ DOMAIN sourceMap

\* Diff without the leftover pass over targetMap: nothing is deleted.
DiffNoDeletes(job, sourceMap, targetMap) ==
  LET idxs == getPrimaryKeyIndices(job)
      shared == DOMAIN sourceMap \cap DOMAIN targetMap
      changed == { k \in shared : RowHasDiff(sourceMap[k], targetMap, k) }
  IN [inserts |-> { StmtInsert(k, job.Columns, sourceMap[k]) :
                      k \in DOMAIN sourceMap \ DOMAIN targetMap },
      updates |-> { u \in { BuildUpdate(job, k, sourceMap[k]) : k \in changed } :
                      Len(u.set) > 0 },
      deletes |-> {}]

\* The statement lists syncTarget builds from sourceMap and targetMap.
Diff(job, sourceMap, targetMap) ==
  LET idxs == getPrimaryKeyIndices(job)
      shared == DOMAIN sourceMap \cap DOMAIN targetMap
      changed == { k \in shared : RowHasDiff(sourceMap[k], targetMap, k) }
  IN [inserts |-> { StmtInsert(k, job.Columns, sourceMap[k]) :
                      k \in DOMAIN sourceMap \ DOMAIN targetMap },
      updates |-> { u \in { BuildUpdate(job, k, sourceMap[k]) : k \in changed } :
                      Len(u.set) > 0 },
      deletes |-> { StmtDelete(k, whereClause(k, job.Columns, idxs)) :
                      k \in Leftover(sourceMap, targetMap) }]

NoStmts == [inserts |-> {}, updates |-> {}, deletes |-> {}]

\* The three loops in the opposite order.
NextStmtsInsertsFirst(p) ==
  IF p.inserts # {} THEN p.inserts
  ELSE IF p.updates # {} THEN p.updates
  ELSE p.deletes

\* DELETEs run first, then UPDATEs, then INSERTs; within a list the order is
\* that of Go's map iteration, i.e. any.
NextStmts(p) ==
  IF p.deletes # {} THEN p.deletes
  ELSE IF p.updates # {} THEN p.updates
  ELSE p.inserts

Remaining(p, s) ==
  [inserts |-> p.inserts \ {s}, updates |-> p.updates \ {s}, deletes |-> p.deletes \ {s}]

\* The shared map when the delete of line 136 is applied to sourceMap.
SourceMapAfterDelete(sourceMap, targetMap) ==
  [k \in DOMAIN sourceMap \ DOMAIN targetMap |-> sourceMap[k]]

\* syncTarget only reads sourceMap (the delete of line 136 is on targetMap):
\* the map shared by the workers after one worker's diff.
SourceMapAfter(sourceMap, targetMap) == sourceMap

\* A comparison that never short-circuits.
ChecksumsNeverMatch(sourceChecksum, targetChecksum) == FALSE

\* The comparison that short-circuits a pass.
ChecksumsMatch(sourceChecksum, targetChecksum) == sourceChecksum = targetChecksum

SyncResult(target, checksum, synced, err) ==
  [Target |-> target, TargetChecksum |-> checksum, Synced |-> synced, Error |-> err]

TargetOf(job, dsn) == job.Targets[CHOOSE i \in DOMAIN job.Targets : job.Targets[i].DSN = dsn]

\* The goroutine reads a loop variable shared by all iterations: the last
\* target.
WorkerTableCaptured(job, dsn) == job.Targets[Len(job.Targets)]

\* The table value handed to the goroutine started for target dsn
\* (go func(target table) {...}(target)): the loop's own element.
WorkerTable(job, dsn) == TargetOf(job, dsn)

\* A lookup that falls back to some configured job.
ResolveJobDefault(c, jobName) ==
  [ok |-> TRUE,
   name |-> IF jobName \in DOMAIN c.Jobs THEN jobName ELSE CHOOSE n \in DOMAIN c.Jobs : TRUE]

\* job, ok := c.Jobs[jobName]
ResolveJob(c, jobName) == [ok |-> jobName \in DOMAIN c.Jobs, name |-> jobName]

\* ---------------------------------------------------------------- initial state
TheJob == config.Jobs[CHOOSE n \in DOMAIN config.Jobs : TRUE]

Endpoints == {TheJob.Source.DSN} \cup TargetDSNs(TheJob)

NoResult == SyncResult(TableConfigOf(""), EmptyChecksum, FALSE, NoError)

NoPass == [checksum |-> EmptyChecksum, synced |-> FALSE, err |-> "none"]

NoSource == [entries |-> << >>, map |-> << >>, checksum |-> EmptyChecksum]

ZeroStat ==
  [conn |-> 0, query |-> 0, fault |-> "none", first |-> "none", ready |-> "none", tab |-> TRUE]

\* No ExecAllJobs / PingAllJobs is running.
NoLoop == [op |-> "none", todo |-> {}, cur |-> "", results |-> << >>, errors |-> << >>,
           err |-> "nil", done |-> FALSE]

NoCall == [f |-> "none"]

InitState(names, shapes, n, keyVals, rows, runs) ==
  /\ config \in { [Jobs |-> [name \in names |-> JobConfigOf(shape, n)]] : shape \in shapes }
  /\ scen = [keys |-> keyVals, rows |-> rows, runs |-> runs]
  /\ db = [d \in Endpoints |-> {}]
  /\ seeded = FALSE
  /\ pc = "idle"
  /\ callName = ""
  /\ cur = ""
  /\ src = NoSource
  /\ wpc = [d \in TargetDSNs(TheJob) |-> "none"]
  /\ tsum = [d \in TargetDSNs(TheJob) |-> EmptyChecksum]
  /\ stmts = [d \in TargetDSNs(TheJob) |-> NoStmts]
  /\ out = [d \in TargetDSNs(TheJob) |-> NoResult]
  /\ wg = 0
  /\ resultChan = << >>
  /\ open = [d \in Endpoints |-> 0]
  /\ rets = << >>
  /\ chk = [d \in Endpoints |-> "none"]
  /\ pingChan = [d \in Endpoints |-> "empty"]
  /\ ppc = [d \in TargetDSNs(TheJob) |-> "none"]
  /\ pres = << >>
  /\ timer = [d \in Endpoints |-> "off"]
  /\ tables = Endpoints
  /\ all = NoLoop
  /\ stat = [d \in Endpoints |-> ZeroStat]
  /\ log = [d \in Endpoints |-> << >>]
  /\ db0 = db
  /\ passOut = [d \in TargetDSNs(TheJob) |-> NoPass]

InitWith(names, shapes, n, keyVals, rows, runs) ==
  /\ InitState(names, shapes, n, keyVals, rows, runs)
  /\ fn = NoCall

\* One job with a single target, tables of up to MaxRows rows, one call.
Init == InitWith(JobNames, Shapes, 1, KeyVals, MaxRows, 1)

\* A single target, tables of up to TwiceRows rows, up to MaxRuns calls.
InitTwice == InitWith(JobNames, TwiceShapes, 1, KeyVals, TwiceRows, MaxRuns)

\* One job with NumTargets targets, tables of at most one row, one call.
InitFan == InitWith(JobNames, FanShapes, NumTargets, FanKeyVals, 1, 1)

\* Two jobs, each with one target, on the same endpoints and table.
InitAll == InitWith(TwoJobNames, FanShapes, 1, FanKeyVals, 1, 1)

NoPingYet == \A d \in Endpoints : chk[d] = "none"

\* No check goroutine of an earlier PingJob is still running.
Quiesced == \A d \in Endpoints : chk[d] \in {"none", "done"}

OnlyPings == \A i \in DOMAIN rets : rets[i].op = "PingJob"

\* The call is made by the caller of the package (up to scen.runs calls), or
\* by the loop of ExecAllJobs / PingAllJobs named loopOp for a job it has not
\* visited yet.
CallAllowed(loopOp, jobName) ==
  \/ all.op = "none" /\ Len(rets) < scen.runs
  \/ all.op = loopOp /\ ~all.done /\ all.cur = "" /\ jobName \in all.todo

CallNoted(jobName) == IF all.op = "none" THEN all ELSE [all EXCEPT !.cur = jobName]

\* The environment populates the source and target tables before the first
\* call (the fixtures of TestExecJob).
Seed ==
  /\ ~seeded /\ pc = "idle" /\ rets = << >> /\ NoPingYet
  /\ tables = Endpoints /\ all.cur = ""
  /\ db' \in [Endpoints -> TablesUpTo(TheJob, RowUniverse(TheJob, scen.keys), scen.rows)]
  /\ seeded' = TRUE
  /\ db0' = db'
  /\ UNCHANGED <<config, scen, pc, callName, cur, open, rets, stat, log, passOut>>
  /\ UNCHANGED syncVars
  /\ UNCHANGED pingVars
  /\ UNCHANGED outerVars

Ret(op, name, err, checksum, results) ==
  [op |-> op, name |-> name, err |-> err, checksum |-> checksum, results |-> results]

\* What the latest call returned.
LastRet == rets[Len(rets)]

\* ---------------------------------------------------------------- ExecJob
\* Config.ExecJob: look the job up, then enter syncTargets.
ExecJob(jobName) ==
  /\ pc = "idle" /\ CallAllowed("ExecAllJobs", jobName) /\ NoPingYet
  /\ callName' = jobName
  /\ LET job == ResolveJob(config, jobName)
     IN IF ~job.ok
        THEN /\ rets' = Append(rets, Ret("ExecJob", jobName, "job not found", EmptyChecksum, << >>))
             /\ UNCHANGED <<pc, cur>>
        ELSE /\ pc' = "connect"
             /\ cur' = job.name
             /\ UNCHANGED rets
  /\ stat' = [d \in Endpoints |-> ZeroStat]
  /\ log' = [d \in Endpoints |-> << >>]
  /\ db0' = db
  /\ passOut' = [d \in TargetDSNs(TheJob) |-> NoPass]
  /\ src' = NoSource
  /\ wpc' = [d \in TargetDSNs(TheJob) |-> "none"]
  /\ tsum' = [d \in TargetDSNs(TheJob) |-> EmptyChecksum]
  /\ stmts' = [d \in TargetDSNs(TheJob) |-> NoStmts]
  /\ out' = [d \in TargetDSNs(TheJob) |-> NoResult]
  /\ resultChan' = << >>
  /\ UNCHANGED <<config, scen, db, seeded, wg, open>>
  /\ UNCHANGED pingVars
  /\ all' = CallNoted(jobName)
  /\ UNCHANGED <<tables, fn>>

Bump(field, d) == [stat EXCEPT ![d][field] = @ + 1]

Fault(field, d, kind) == [stat EXCEPT ![d][field] = @ + 1, ![d].fault = kind]

\* source.connect() whose error is ignored.
SourceConnectIgnoresError ==
  /\ pc = "connect"
  /\ \/ /\ stat' = Fault("conn", Job.Source.DSN, "connect")
        /\ UNCHANGED open
     \/ /\ stat' = Bump("conn", Job.Source.DSN)
        /\ open' = [open EXCEPT ![Job.Source.DSN] = @ + 1]
  /\ pc' = "load"
  /\ UNCHANGED <<config, scen, db, seeded, callName, cur, rets, log, db0, passOut>>
  /\ UNCHANGED syncVars
  /\ UNCHANGED pingVars
  /\ UNCHANGED outerVars

\* syncTargets: source.connect().
SourceConnect ==
  /\ pc = "connect"
  /\ \/ /\ stat' = Fault("conn", Job.Source.DSN, "connect")
        /\ rets' = Append(rets, Ret("ExecJob", callName, "connect failed", EmptyChecksum, << >>))
        /\ pc' = "idle"
        /\ UNCHANGED open
     \/ /\ stat' = Bump("conn", Job.Source.DSN)
        /\ open' = [open EXCEPT ![Job.Source.DSN] = @ + 1]
        /\ pc' = "load"
        /\ UNCHANGED rets
  /\ UNCHANGED <<config, scen, db, seeded, callName, cur, log, db0, passOut>>
  /\ UNCHANGED syncVars
  /\ UNCHANGED pingVars
  /\ UNCHANGED outerVars

\* syncTargets: source.getEntries(), source.Close(), checksumData.
SourceLoad ==
  /\ pc = "load"
  /\ \/ /\ stat' = Fault("query", Job.Source.DSN, "query")
        /\ rets' = Append(rets, Ret("ExecJob", callName, "query failed", EmptyChecksum, << >>))
        /\ pc' = "idle"
        /\ UNCHANGED <<open, src>>
     \/ /\ Job.Source.DSN \in tables
        /\ stat' = Bump("query", Job.Source.DSN)
        /\ LET e == getEntries(Job, db[Job.Source.DSN])
           IN src' = [entries |-> e.entries, map |-> e.map,
                      checksum |-> checksumData(e.entries)]
        /\ open' = [open EXCEPT ![Job.Source.DSN] = @ - 1]
        /\ pc' = "fanout"
        /\ UNCHANGED rets
  /\ UNCHANGED <<config, scen, db, seeded, callName, cur, log, db0, passOut>>
  /\ UNCHANGED <<wpc, tsum, stmts, out, wg, resultChan>>
  /\ UNCHANGED pingVars
  /\ UNCHANGED outerVars

\* An unbuffered result channel.
ChanCapUnbuffered(job) == 0

\* cap(resultChan) of make(chan ..., len(targets)).
ChanCap(job) == Len(job.Targets)

\* syncTargets: one goroutine per target, wg.Add(1) for each.
FanOut ==
  /\ pc = "fanout"
  /\ wg' = Len(Job.Targets)
  /\ resultChan' = << >>
  /\ wpc' = [d \in TargetDSNs(Job) |-> "connect"]
  /\ pc' = "wait"
  /\ UNCHANGED <<config, scen, db, seeded, callName, cur, open, rets, src, tsum, stmts, out>>
  /\ UNCHANGED histVars
  /\ UNCHANGED pingVars
  /\ UNCHANGED outerVars

\* A result that leaves the Error field unset.
FinishDropsError(d, checksum, synced, err) ==
  /\ out' = [out EXCEPT ![d] = SyncResult(WorkerTable(Job, d), checksum, synced, NoError)]
  /\ passOut' = [passOut EXCEPT ![d] = [checksum |-> checksum, synced |-> synced, err |-> err]]
  /\ wpc' = [wpc EXCEPT ![d] = "send"]

\* The worker's pass is over: its result is built from target.config.
Finish(d, checksum, synced, err) ==
  /\ out' = [out EXCEPT ![d] = SyncResult(WorkerTable(Job, d), checksum, synced, err)]
  /\ passOut' = [passOut EXCEPT ![d] = [checksum |-> checksum, synced |-> synced, err |-> err]]
  /\ wpc' = [wpc EXCEPT ![d] = "send"]

\* Worker: target.connect().
TargetConnect(d) ==
  /\ wpc[d] = "connect"
  /\ LET t == WorkerTable(Job, d).DSN
     IN \/ /\ stat' = Fault("conn", t, "connect")
           /\ Finish(d, EmptyChecksum, FALSE, "connect failed")
           /\ UNCHANGED open
        \/ /\ stat' = Bump("conn", t)
           /\ open' = [open EXCEPT ![t] = @ + 1]
           /\ wpc' = [wpc EXCEPT ![d] = "sync"]
           /\ UNCHANGED <<out, passOut>>
  /\ UNCHANGED <<config, scen, db, seeded, pc, callName, cur, rets, src, tsum, stmts, wg,
                 resultChan, log, db0>>
  /\ UNCHANGED pingVars
  /\ UNCHANGED outerVars

\* Worker: syncTarget up to the first statement: load the target, checksum
\* it, compare with the source checksum, build the statement lists.
TargetLoad(d) ==
  /\ wpc[d] = "sync"
  /\ LET t == WorkerTable(Job, d).DSN
     IN \/ /\ stat' = Fault("query", t, "query")
           /\ Finish(d, EmptyChecksum, FALSE, "query failed")
           /\ open' = [open EXCEPT ![t] = @ - 1]
           /\ UNCHANGED <<tsum, stmts, src>>
        \/ /\ t \in tables
           /\ stat' = Bump("query", t)
           /\ LET e == getEntries(Job, db[t])
                  targetChecksum == checksumData(e.entries)
                  p == Diff(Job, src.map, e.map)
              IN IF ChecksumsMatch(src.checksum, targetChecksum)
                 THEN /\ Finish(d, targetChecksum, FALSE, NoError)
                      /\ open' = [open EXCEPT ![t] = @ - 1]
                      /\ UNCHANGED <<tsum, stmts, src>>
                 ELSE /\ src' = [src EXCEPT !.map = SourceMapAfter(src.map, e.map)]
                      /\ IF p = NoStmts
                         THEN /\ Finish(d, targetChecksum, TRUE, NoError)
                              /\ open' = [open EXCEPT ![t] = @ - 1]
                              /\ UNCHANGED <<tsum, stmts>>
                         ELSE /\ tsum' = [tsum EXCEPT ![d] = targetChecksum]
                              /\ stmts' = [stmts EXCEPT ![d] = p]
                              /\ wpc' = [wpc EXCEPT ![d] = "exec"]
                              /\ UNCHANGED <<out, passOut, open>>
  /\ UNCHANGED <<config, scen, db, seeded, pc, callName, cur, rets, wg, resultChan, log, db0>>
  /\ UNCHANGED pingVars
  /\ UNCHANGED outerVars

\* A checksum taken again from the table as the statements left it.
ReportedChecksumRecomputed(job, targetChecksum, T) ==
  checksumData(getEntries(job, T).entries)

\* The checksum syncTarget returns after its last statement: the variable
\* assigned when the target was loaded; T is the table as it is by then.
ReportedChecksum(job, targetChecksum, T) == targetChecksum

\* The statements of a pass undone when one of them fails.
AfterFailureRolledBack(before, T) == before

\* The table a failed statement leaves behind: the statements run with
\* RunWith(t.DB), outside any transaction, so T, the table as the earlier
\* statements of the pass made it from before, stays.
AfterFailure(before, T) == T

\* Worker: execute the next statement of syncTarget; a failure ends the pass.
TargetExec(d) ==
  /\ wpc[d] = "exec"
  /\ LET t == WorkerTable(Job, d).DSN
     IN \E s \in NextStmts(stmts[d]) :
          \/ /\ log' = [log EXCEPT ![t] = Append(@, [stmt |-> s, ok |-> FALSE])]
             /\ stat' = [stat EXCEPT ![t].fault = "exec"]
             /\ Finish(d, EmptyChecksum, FALSE, "exec failed")
             /\ open' = [open EXCEPT ![t] = @ - 1]
             /\ db' = [db EXCEPT ![t] = AfterFailure(db0[t], @)]
             /\ UNCHANGED stmts
          \/ /\ ~StmtRejected(Job, db[t], s)
             /\ log' = [log EXCEPT ![t] = Append(@, [stmt |-> s, ok |-> TRUE])]
             /\ db' = [db EXCEPT ![t] = ApplyStmt(Job, @, s)]
             /\ IF Remaining(stmts[d], s) = NoStmts
                THEN /\ Finish(d, ReportedChecksum(Job, tsum[d], ApplyStmt(Job, db[t], s)),
                               TRUE, NoError)
                     /\ open' = [open EXCEPT ![t] = @ - 1]
                     /\ stmts' = [stmts EXCEPT ![d] = NoStmts]
                ELSE /\ stmts' = [stmts EXCEPT ![d] = Remaining(@, s)]
                     /\ UNCHANGED <<out, passOut, wpc, open>>
             /\ UNCHANGED stat
  /\ UNCHANGED <<config, scen, seeded, pc, callName, cur, rets, src, tsum, wg, resultChan, db0>>
  /\ UNCHANGED pingVars
  /\ UNCHANGED outerVars

\* Worker: resultChan <- SyncResult{...}, then the deferred wg.Done().
TargetSend(d) ==
  /\ wpc[d] = "send"
  /\ Len(resultChan) < ChanCap(Job)
  /\ resultChan' = Append(resultChan, out[d])
  /\ wg' = wg - 1
  /\ wpc' = [wpc EXCEPT ![d] = "done"]
  /\ UNCHANGED <<config, scen, db, seeded, pc, callName, cur, open, rets, src, tsum, stmts, out>>
  /\ UNCHANGED histVars
  /\ UNCHANGED pingVars
  /\ UNCHANGED outerVars

\* A wait that does not wait.
wgWaitNoBarrier(n) == TRUE

\* wg.Wait() returns when the counter n of the WaitGroup is zero.
wgWait(n) == n = 0

\* syncTargets: wg.Wait(), close and drain resultChan, return.
ExecReturn ==
  /\ pc = "wait" /\ wgWait(wg)
  /\ rets' = Append(rets, Ret("ExecJob", callName, NoError, src.checksum, resultChan))
  /\ resultChan' = << >>
  /\ pc' = "idle"
  /\ UNCHANGED <<config, scen, db, seeded, callName, cur, open, src, wpc, tsum, stmts, out, wg>>
  /\ UNCHANGED histVars
  /\ UNCHANGED pingVars
  /\ UNCHANGED outerVars

\* ---------------------------------------------------------------- PingJob
PingResult(cfg, err) == [Config |-> cfg, Error |-> err]

TimedOut == "ping operation timed out"

\* Config.PingJob: look the job up, then start pingWithTimeout on the source
\* (its check goroutine is spawned).
PingJob(jobName) ==
  /\ pc = "idle" /\ ~seeded /\ OnlyPings
  /\ CallAllowed("PingAllJobs", jobName)
  /\ callName' = jobName
  /\ LET job == ResolveJob(config, jobName)
         source == config.Jobs[job.name].Source.DSN
     IN IF ~job.ok
        THEN /\ NoPingYet
             /\ rets' = Append(rets, Ret("PingJob", jobName, "job not found", EmptyChecksum, << >>))
             /\ stat' = [d \in Endpoints |-> ZeroStat]
             /\ UNCHANGED <<pc, cur, chk, timer, pingChan, ppc>>
        ELSE /\ Quiesced
             /\ stat' = [d \in Endpoints |-> [ZeroStat EXCEPT !.tab = d \in tables]]
             /\ pc' = "pingsrc"
             /\ cur' = job.name
             /\ chk' = [d \in Endpoints |-> IF d = source THEN "connect" ELSE "none"]
             /\ timer' = [d \in Endpoints |-> IF d = source THEN "armed" ELSE "off"]
             /\ pingChan' = [d \in Endpoints |-> "empty"]
             /\ ppc' = [d \in TargetDSNs(TheJob) |-> "none"]
             /\ UNCHANGED rets
  /\ pres' = << >>
  /\ UNCHANGED <<config, scen, db, seeded, open, log, db0, passOut>>
  /\ UNCHANGED syncVars
  /\ all' = CallNoted(jobName)
  /\ UNCHANGED <<tables, fn>>

\* The check's outcome is sent into the one-slot channel: noted when the
\* timer has not fired before.
Delivered(st, d) ==
  [st EXCEPT ![d].first = IF @ = "none" THEN "result" ELSE @]

\* pingWithTimeout is in its select on endpoint d's channel: the receiver
\* of the check's outcome has not returned yet.
Receiving(d) ==
  \/ pc = "pingsrc" /\ d = Job.Source.DSN
  \/ pc = "pingwait" /\ d \in TargetDSNs(Job) /\ ppc[d] = "select"

\* An unbuffered channel between the check and pingWithTimeout.
PingChanCapUnbuffered(d) == 0

\* cap(resultChan) of make(chan error, 1) in pingWithTimeout.
PingChanCap(d) == 1

\* resultChan <- config.ping(columns) can proceed: the buffer has a free slot
\* (it is sent to once), or the receiver is in its select.
CanSend(d) ==
  \/ PingChanCap(d) > 0 /\ pingChan[d] = "empty"
  \/ Receiving(d)

\* A check that goes back to the step that failed.
CheckAfterErrorRetry(step) == step

\* Where the check goroutine is after a step of TableConfig.ping returned an
\* error: at its end (return err), whatever the step.
CheckAfterError(step) == "done"

\* The check goroutine: TableConfig.ping, t.connect().
PingConnect(d) ==
  /\ chk[d] = "connect"
  /\ \/ /\ CanSend(d)
        /\ stat' = Delivered(Fault("conn", d, "connect"), d)
        /\ pingChan' = [pingChan EXCEPT ![d] = "connect failed"]
        /\ chk' = [chk EXCEPT ![d] = CheckAfterError("connect")]
        /\ UNCHANGED open
     \/ /\ stat' = Bump("conn", d)
        /\ open' = [open EXCEPT ![d] = @ + 1]
        /\ chk' = [chk EXCEPT ![d] = "query"]
        /\ UNCHANGED pingChan
  /\ UNCHANGED <<config, scen, db, seeded, pc, callName, cur, rets, ppc, pres, timer, log, db0,
                 passOut>>
  /\ UNCHANGED syncVars
  /\ UNCHANGED outerVars

\* A check that only connects: the SELECT never fails.
PingQueryNoSelect(d) ==
  /\ chk[d] = "query" /\ CanSend(d)
  /\ IF FALSE
     THEN /\ stat' = Delivered(Fault("query", d, "query"), d)
          /\ pingChan' = [pingChan EXCEPT ![d] = "query failed"]
     ELSE /\ stat' = Delivered(Bump("query", d), d)
          /\ pingChan' = [pingChan EXCEPT ![d] = NoError]
  /\ open' = [open EXCEPT ![d] = @ - 1]
  /\ chk' = [chk EXCEPT ![d] = "done"]
  /\ UNCHANGED <<config, scen, db, seeded, pc, callName, cur, rets, ppc, pres, timer, log, db0,
                 passOut>>
  /\ UNCHANGED syncVars
  /\ UNCHANGED outerVars

\* The check goroutine: SELECT columns FROM table LIMIT 1, which fails when
\* the table or one of the columns does not exist, the deferred t.Close(), and
\* the send of the outcome into the one-slot channel.
PingQuery(d) ==
  /\ chk[d] = "query" /\ CanSend(d)
  /\ IF d \notin tables
     THEN /\ stat' = Delivered(Fault("query", d, "query"), d)
          /\ pingChan' = [pingChan EXCEPT ![d] = "query failed"]
     ELSE /\ stat' = Delivered(Bump("query", d), d)
          /\ pingChan' = [pingChan EXCEPT ![d] = NoError]
  /\ open' = [open EXCEPT ![d] = @ - 1]
  /\ chk' = [chk EXCEPT ![d] = "done"]
  /\ UNCHANGED <<config, scen, db, seeded, pc, callName, cur, rets, ppc, pres, timer, log, db0,
                 passOut>>
  /\ UNCHANGED syncVars
  /\ UNCHANGED outerVars

\* A context without a deadline: ctx.Done() is never closed.
TimerFireNever(d) == FALSE /\ UNCHANGED vars

\* The context's timer of pingWithTimeout expires: ctx.Done() is closed.
TimerFire(d) ==
  /\ timer[d] = "armed"
  /\ timer' = [timer EXCEPT ![d] = "fired"]
  /\ stat' = [stat EXCEPT ![d].first = IF @ = "none" THEN "timer" ELSE @]
  /\ UNCHANGED <<config, scen, db, seeded, pc, callName, cur, open, rets, chk, pingChan, ppc,
                 pres>>
  /\ UNCHANGED syncVars
  /\ UNCHANGED <<log, db0, passOut>>
  /\ UNCHANGED outerVars

\* The cases of the select that can proceed.
ReadyAt(d) ==
  IF timer[d] = "fired" /\ pingChan[d] # "empty" THEN "both"
  ELSE IF timer[d] = "fired" THEN "timer"
  ELSE IF pingChan[d] # "empty" THEN "result"
  ELSE "none"

\* A select whose timer case returns nil.
SelectedSwallowsTimeout(d, err) ==
  \/ timer[d] = "fired" /\ err = NoError /\ UNCHANGED pingChan
  \/ /\ pingChan[d] # "empty"
     /\ err = pingChan[d]
     /\ pingChan' = [pingChan EXCEPT ![d] = "empty"]

\* A select whose result case returns nil whatever was received.
SelectedDropsResult(d, err) ==
  \/ timer[d] = "fired" /\ err = TimedOut /\ UNCHANGED pingChan
  \/ /\ pingChan[d] # "empty"
     /\ err = NoError
     /\ pingChan' = [pingChan EXCEPT ![d] = "empty"]

\* The select of pingWithTimeout blocks until the timer has fired or a result
\* is in the channel; when both can proceed either case is taken.
Selected(d, err) ==
  \/ timer[d] = "fired" /\ err = TimedOut /\ UNCHANGED pingChan
  \/ /\ pingChan[d] # "empty"
     /\ err = pingChan[d]
     /\ pingChan' = [pingChan EXCEPT ![d] = "empty"]

PingErrors == {TimedOut, "connect failed", "query failed", NoError}

\* A PingJob that returns the source's error, as syncTargets does, instead of
\* going on to the targets.
PingSourceAborts ==
  /\ pc = "pingsrc"
  /\ \E err \in PingErrors :
       /\ Selected(Job.Source.DSN, err)
       /\ IF err # NoError
          THEN /\ rets' = Append(rets, Ret("PingJob", callName, err, EmptyChecksum, << >>))
               /\ pc' = "idle"
               /\ UNCHANGED <<pres, wg, resultChan, ppc, chk, timer>>
          ELSE /\ pres' = Append(pres, PingResult(Job.Source, err))
               /\ wg' = Len(Job.Targets)
               /\ resultChan' = << >>
               /\ ppc' = [d \in TargetDSNs(Job) |-> "select"]
               /\ chk' = [d \in Endpoints |-> IF d \in TargetDSNs(Job) THEN "connect" ELSE chk[d]]
               /\ timer' = [d \in Endpoints |-> IF d \in TargetDSNs(Job) THEN "armed" ELSE "off"]
               /\ pc' = "pingwait"
               /\ UNCHANGED rets
  /\ stat' = [stat EXCEPT ![Job.Source.DSN].ready = ReadyAt(Job.Source.DSN)]
  /\ UNCHANGED <<config, scen, db, seeded, callName, cur, open, src, wpc, tsum, stmts, out>>
  /\ UNCHANGED <<log, db0, passOut>>
  /\ UNCHANGED outerVars

\* PingJob: the source's pingWithTimeout returns; the target workers start.
PingSource ==
  /\ pc = "pingsrc"
  /\ \E err \in PingErrors :
       /\ Selected(Job.Source.DSN, err)
       /\ pres' = Append(pres, PingResult(Job.Source, err))
  /\ wg' = Len(Job.Targets)
  /\ resultChan' = << >>
  /\ ppc' = [d \in TargetDSNs(Job) |-> "select"]
  /\ chk' = [d \in Endpoints |-> IF d \in TargetDSNs(Job) THEN "connect" ELSE chk[d]]
  /\ timer' = [d \in Endpoints |-> IF d \in TargetDSNs(Job) THEN "armed" ELSE "off"]
  /\ stat' = [stat EXCEPT ![Job.Source.DSN].ready = ReadyAt(Job.Source.DSN)]
  /\ pc' = "pingwait"
  /\ UNCHANGED <<config, scen, db, seeded, callName, cur, open, rets, src, wpc, tsum, stmts, out>>
  /\ UNCHANGED <<log, db0, passOut>>
  /\ UNCHANGED outerVars

\* A target's ping worker: pingWithTimeout returns, the result is sent, and
\* the deferred wg.Done() runs.
PingTarget(d) ==
  /\ pc = "pingwait" /\ ppc[d] = "select"
  /\ Len(resultChan) < ChanCap(Job)
  /\ \E err \in PingErrors :
       /\ Selected(d, err)
       /\ resultChan' = Append(resultChan, PingResult(TargetOf(Job, d), err))
  /\ wg' = wg - 1
  /\ ppc' = [ppc EXCEPT ![d] = "done"]
  /\ timer' = [timer EXCEPT ![d] = "off"]
  /\ stat' = [stat EXCEPT ![d].ready = ReadyAt(d)]
  /\ UNCHANGED <<config, scen, db, seeded, pc, callName, cur, open, rets, src, wpc, tsum,
                 stmts, out, chk, pres>>
  /\ UNCHANGED <<log, db0, passOut>>
  /\ UNCHANGED outerVars

\* The targets' results put before the source's.
CollectSourceLast(results, drained) == drained \o results

\* for result := range resultChan { results = append(results, result) }
Collect(results, drained) == results \o drained

\* PingJob: wg.Wait(), close and drain resultChan, return.
PingReturn ==
  /\ pc = "pingwait" /\ wg = 0
  /\ rets' = Append(rets, Ret("PingJob", callName, NoError, EmptyChecksum, Collect(pres, resultChan)))
  /\ resultChan' = << >>
  /\ pc' = "idle"
  /\ UNCHANGED <<config, scen, db, seeded, callName, cur, open, src, wpc, tsum, stmts, out, wg>>
  /\ UNCHANGED pingVars
  /\ UNCHANGED histVars
  /\ UNCHANGED outerVars

\* ---------------------------------------------------------------- environment
\* A table is dropped before the first call (at most one is missing).
DropTable(d) ==
  /\ pc = "idle" /\ ~seeded /\ rets = << >> /\ NoPingYet /\ all.op = "none"
  /\ tables = Endpoints
  /\ tables' = tables \ {d}
  /\ UNCHANGED <<config, scen, db, seeded, pc, callName, cur, open, rets, all, fn>>
  /\ UNCHANGED syncVars
  /\ UNCHANGED pingVars
  /\ UNCHANGED histVars

\* A missing table is created, with the configured columns, between two calls.
CreateTable(d) ==
  /\ pc = "idle" /\ rets # << >> /\ Quiesced /\ all.op = "none"
  /\ d \notin tables
  /\ tables' = tables \cup {d}
  /\ UNCHANGED <<config, scen, db, seeded, pc, callName, cur, open, rets, all, fn>>
  /\ UNCHANGED syncVars
  /\ UNCHANGED pingVars
  /\ UNCHANGED histVars

\* ---------------------------------------------------------------- ExecAllJobs, PingAllJobs
\* m[k] = v on a Go map.
Put(m, k, v) == [x \in DOMAIN m \cup {k} |-> IF x = k THEN v ELSE m[x]]

ExecJobResult(checksum, results) == [Checksum |-> checksum, Results |-> results]

\* A loop that stops at the first job that returned an error.
AllTodoStopsOnError(todo, jobName, err) ==
  IF err # NoError THEN {} ELSE todo \ {jobName}

\* for jobName := range c.Jobs: the jobs still to visit after jobName.
AllTodoAfter(todo, jobName, err) == todo \ {jobName}

\* Config.ExecAllJobs: the two maps are made.
ExecAllJobs ==
  /\ pc = "idle" /\ rets = << >> /\ all.op = "none" /\ NoPingYet
  /\ all' = [NoLoop EXCEPT !.op = "ExecAllJobs", !.todo = DOMAIN config.Jobs]
  /\ UNCHANGED <<config, scen, db, seeded, pc, callName, cur, open, rets, tables, fn>>
  /\ UNCHANGED syncVars
  /\ UNCHANGED pingVars
  /\ UNCHANGED histVars

\* ExecAllJobs: c.ExecJob(jobName) has returned; results[jobName] and
\* errors[jobName] are set.
ExecAllStore ==
  /\ all.op = "ExecAllJobs" /\ all.cur # "" /\ pc = "idle"
  /\ all' = [all EXCEPT
               !.results = Put(@, all.cur, ExecJobResult(LastRet.checksum, LastRet.results)),
               !.errors = Put(@, all.cur, LastRet.err),
               !.todo = AllTodoAfter(@, all.cur, LastRet.err),
               !.cur = ""]
  /\ UNCHANGED <<config, scen, db, seeded, pc, callName, cur, open, rets, tables, fn>>
  /\ UNCHANGED syncVars
  /\ UNCHANGED pingVars
  /\ UNCHANGED histVars

\* ExecAllJobs: the range is exhausted; return results, errors.
ExecAllReturn ==
  /\ all.op = "ExecAllJobs" /\ all.cur = "" /\ all.todo = {} /\ ~all.done
  /\ all' = [all EXCEPT !.done = TRUE]
  /\ UNCHANGED <<config, scen, db, seeded, pc, callName, cur, open, rets, tables, fn>>
  /\ UNCHANGED syncVars
  /\ UNCHANGED pingVars
  /\ UNCHANGED histVars

\* An error test that also looks into the results of the job.
PingJobErrorOrFailure(ret) ==
  IF ret.err # NoError THEN ret.err
  ELSE IF \E i \in DOMAIN ret.results : ret.results[i].Error # NoError
       THEN ret.results[CHOOSE i \in DOMAIN ret.results : ret.results[i].Error # NoError].Error
       ELSE NoError

\* The err of `jobResults, err := c.PingJob(jobName, timeout)`.
PingJobError(ret) == ret.err

\* Config.PingAllJobs: the map is made.
PingAllJobs ==
  /\ pc = "idle" /\ rets = << >> /\ all.op = "none" /\ NoPingYet /\ ~seeded
  /\ all' = [NoLoop EXCEPT !.op = "PingAllJobs", !.todo = DOMAIN config.Jobs]
  /\ UNCHANGED <<config, scen, db, seeded, pc, callName, cur, open, rets, tables, fn>>
  /\ UNCHANGED syncVars
  /\ UNCHANGED pingVars
  /\ UNCHANGED histVars

\* PingAllJobs: c.PingJob(jobName, timeout) has returned; an error ends the
\* call with (nil, err), otherwise results[jobName] is set.
PingAllStore ==
  /\ all.op = "PingAllJobs" /\ all.cur # "" /\ pc = "idle" /\ ~all.done
  /\ all' = IF PingJobError(LastRet) # NoError
            THEN [all EXCEPT !.results = << >>, !.err = PingJobError(LastRet),
                             !.cur = "", !.done = TRUE]
            ELSE [all EXCEPT !.results = Put(@, all.cur, LastRet.results),
                             !.todo = @ \ {all.cur},
                             !.cur = ""]
  /\ UNCHANGED <<config, scen, db, seeded, pc, callName, cur, open, rets, tables, fn>>
  /\ UNCHANGED syncVars
  /\ UNCHANGED pingVars
  /\ UNCHANGED histVars

\* PingAllJobs: the range is exhausted; return results, nil.
PingAllReturn ==
  /\ all.op = "PingAllJobs" /\ all.cur = "" /\ all.todo = {} /\ ~all.done
  /\ all' = [all EXCEPT !.done = TRUE]
  /\ UNCHANGED <<config, scen, db, seeded, pc, callName, cur, open, rets, tables, fn>>
  /\ UNCHANGED syncVars
  /\ UNCHANGED pingVars
  /\ UNCHANGED histVars

\* ---------------------------------------------------------------- specification
\* The steps of ExecJob, and the seeding of the tables.
\* ------------------------------------------------ the checksum on its own
\* The tables a checksum is computed on: every storage order of every table
\* of the job's rows.
Heaps == UNION { Orders(T) : T \in TablesUpTo(TheJob, RowUniverse(TheJob, scen.keys), scen.rows) }

\* getEntries followed by checksumData (as syncTargets and syncTarget call
\* them) on the table as it is stored now.
LoadChecksum ==
  /\ fn.f = "checksum" /\ Len(fn.sums) < scen.runs
  /\ LET entryList == fetchAll(fn.heap, getPrimaryKeyIndices(TheJob))
     IN fn' = [fn EXCEPT !.sums = Append(@, [heap |-> fn.heap, entries |-> entryList,
                                              checksum |-> checksumData(entryList)])]
  /\ UNCHANGED <<config, scen, db, seeded, pc, callName, cur, open, rets, tables, all>>
  /\ UNCHANGED syncVars
  /\ UNCHANGED pingVars
  /\ UNCHANGED histVars

\* The engine rewrites the table: the same rows, stored in another order.
Rewrite ==
  /\ fn.f = "checksum"
  /\ \E h \in Orders(Range(fn.heap)) \ {fn.heap} : fn' = [fn EXCEPT !.heap = h]
  /\ UNCHANGED <<config, scen, db, seeded, pc, callName, cur, open, rets, tables, all>>
  /\ UNCHANGED syncVars
  /\ UNCHANGED pingVars
  /\ UNCHANGED histVars

\* ------------------------------------------------------------- validation
\* TableConfig.validate: the error it returns, NoError for nil.
TableConfig_validate(cfg) ==
  IF cfg.Table = "" THEN "table name is empty"
  ELSE IF cfg.Driver = "" THEN "table does not specify a driver"
  ELSE IF /\ cfg.DSN # ""
          /\ \/ cfg.User # "" \/ cfg.Password # "" \/ cfg.Host # ""
             \/ cfg.Port # 0 \/ cfg.DB # ""
       THEN "table cannot specify DSN and other connection parameters"
  ELSE NoError

TooManyKeysOffByOne(primaryKeys) == Len(primaryKeys) > 4

\* len(cfg.PrimaryKeys) > 3
TooManyKeys(primaryKeys) == Len(primaryKeys) > 3

\* The label validation puts in front of a table's error.
LabelOr(cfg, default) == IF cfg.Label # "" THEN "\"" \o cfg.Label \o "\"" ELSE default

\* The loop of JobConfig.validate over cfg.Targets from index i (1-based
\* here, 0-based in the message).
RECURSIVE ValidateTargets(_, _)
ValidateTargets(targets, i) ==
  IF i > Len(targets) THEN NoError
  ELSE LET err == TableConfig_validate(targets[i])
       IN IF err # NoError
          THEN LabelOr(targets[i], "target[" \o ToString(i - 1) \o "]") \o ": " \o err
          ELSE ValidateTargets(targets, i + 1)

\* JobConfig.validate: the error it returns, NoError for nil.
JobConfig_validate(cfg) ==
  IF Len(cfg.PrimaryKeys) = 0 THEN "has no primary keys"
  ELSE IF TooManyKeys(cfg.PrimaryKeys) THEN "has too many primary keys"
  ELSE IF Len(cfg.Columns) = 0 THEN "does not specify any columns"
  ELSE IF \E k \in DOMAIN cfg.PrimaryKeys : cfg.PrimaryKeys[k] \notin Range(cfg.Columns)
       THEN LET k == CHOOSE k \in DOMAIN cfg.PrimaryKeys :
                       /\ cfg.PrimaryKeys[k] \notin Range(cfg.Columns)
                       /\ \A j \in 1..(k - 1) : cfg.PrimaryKeys[j] \in Range(cfg.Columns)
            IN "has primary key '" \o cfg.PrimaryKeys[k] \o "' not in columns"
  ELSE IF TableConfig_validate(cfg.Source) # NoError
       THEN LabelOr(cfg.Source, "source") \o ": " \o TableConfig_validate(cfg.Source)
  ELSE IF Len(cfg.Targets) = 0 THEN "has no targets"
  ELSE ValidateTargets(cfg.Targets, 1)

\* Table configurations handed to validation: each of table name, driver and
\* DSN empty or not, and at most one of the other connection parameters set.
TableConfigs ==
  LET blank == [Label |-> "", Table |-> "", Driver |-> "", DSN |-> "",
                User |-> "", Password |-> "", Host |-> "", Port |-> 0, DB |-> ""]
      params == { blank,
                  [blank EXCEPT !.User = "root"], [blank EXCEPT !.Password = "secret"],
                  [blank EXCEPT !.Host = "localhost"], [blank EXCEPT !.Port = 3306],
                  [blank EXCEPT !.DB = "app"] }
  IN { [c EXCEPT !.Table = t, !.Driver = d, !.DSN = dsn] :
         c \in params, t \in {"", "users"}, d \in {"", "mysql"},
         dsn \in {"", "user:pass@tcp(host:3306)/app"} }

ValidTable ==
  [Label |-> "", Table |-> "users", Driver |-> "sqlite3", DSN |-> "file:test.db",
   User |-> "", Password |-> "", Host |-> "", Port |-> 0, DB |-> ""]

KeyName(i) == "k" \o ToString(i)

\* Job configurations handed to validation: 0 to MaxKeys primary-key columns,
\* a key that is no column, no columns, and up to two targets.
JobConfigs ==
  LET keys(n) == [i \in 1..n |-> KeyName(i)]
  IN { [PrimaryKeys |-> pk, Columns |-> cols, Source |-> source, Targets |-> targets] :
         pk \in { keys(n) : n \in 0..MaxKeys } \cup { <<"id">>, <<KeyName(1), "id">> },
         cols \in { << >>, keys(MaxKeys), <<KeyName(1), "name">> },
         source \in TableConfigs,
         targets \in { << >> } \cup { <<t>> : t \in TableConfigs }
                       \cup { <<ValidTable, t>> : t \in TableConfigs } }

\* Config.validate calls job.validate() on a job of the configuration.
Validate ==
  /\ fn.f = "validate"
  /\ fn' = [fn EXCEPT !.f = "validated", !.err = JobConfig_validate(fn.job)]
  /\ UNCHANGED <<config, scen, db, seeded, pc, callName, cur, open, rets, tables, all>>
  /\ UNCHANGED syncVars
  /\ UNCHANGED pingVars
  /\ UNCHANGED histVars

\* ------------------------------------------------------------------ labels
\* The zero HostDefaults: what defaults.Hosts[host] yields for a host that has
\* no entry.
NoHostDefaults ==
  [Label |-> "", Driver |-> "", DSN |-> "", User |-> "", Password |-> "",
   Port |-> 0, DB |-> ""]

MapGetHost(hosts, host) == IF host \in DOMAIN hosts THEN hosts[host] ELSE NoHostDefaults

\* fmt.Sprintf("%s:%d", host, port) and fmt.Sprintf(":%d", port).
HostPort(host, port) == host \o ":" \o ToString(port)

\* The label imposeTableDefaults leaves in a table whose label is empty after
\* the host's default was applied.
SynthLabel(table) ==
  IF table.DSN # "" THEN table.DSN
  ELSE IF table.Host # "" /\ table.Port # 0 THEN HostPort(table.Host, table.Port)
  ELSE IF table.Host # "" THEN table.Host
  ELSE IF table.Port # 0 THEN HostPort("", table.Port)
  ELSE ""

imposeTableDefaults(table, defaults) ==
  LET hostDefaults == IF table.Host # "" THEN MapGetHost(defaults.Hosts, table.Host)
                      ELSE NoHostDefaults
      or(a, b) == IF a = "" THEN b ELSE a
      t1 == [table EXCEPT
               !.Driver = IF @ = ""
                          THEN (IF hostDefaults.Driver # "" THEN hostDefaults.Driver
                                ELSE defaults.Driver)
                          ELSE @,
               !.DSN = or(@, hostDefaults.DSN),
               !.User = or(@, hostDefaults.User),
               !.Password = or(@, hostDefaults.Password),
               !.Port = IF @ = 0 THEN hostDefaults.Port ELSE @,
               !.DB = or(@, hostDefaults.DB),
               !.Label = or(@, hostDefaults.Label)]
  IN [t1 EXCEPT !.Label = IF @ = "" THEN SynthLabel(t1) ELSE @]

\* The PingResult PingJob builds for a table of the job (the source, or the
\* target at index j): Config is the table's configuration as it stands in
\* the job; the sourceLabel computed at ping.go:33-36 goes nowhere.
PingResultFor(table, err) == [Config |-> table, Error |-> err]

\* What cmd/ping.go prints as the endpoint's name.
ReportedLabel(result) == result.Config.Label

\* Tables whose label is looked at: label, DSN, host and port each given or
\* not.
LabelTables ==
  { [Label |-> l, Table |-> "users", Driver |-> "mysql", DSN |-> dsn,
     User |-> "", Password |-> "", Host |-> h, Port |-> port, DB |-> ""] :
      l \in {"", "primary"}, dsn \in {"", "user@tcp(db:3306)/app"},
      h \in {"", "db1", "db2"}, port \in {0, 3306} }

\* Defaults with an entry for host db1 only.
LabelDefaults ==
  { [Driver |-> "mysql",
     Hosts |-> [h \in {"db1"} |->
                 [NoHostDefaults EXCEPT !.Label = l, !.DSN = dsn, !.Port = port]]] :
      l \in {"", "main db"}, dsn \in {"", "root@tcp(db1:3306)/app"}, port \in {0, 3307} }

\* The places a table has in a job: 0 for the source, j for the target
\* printed as "target j".
Places == 0..NumTargets

\* loadConfig: imposeTableDefaults on the source and on each target.
LoadTable ==
  /\ fn.f = "label" /\ ~fn.loaded
  /\ fn' = [fn EXCEPT !.loaded = TRUE, !.table = imposeTableDefaults(fn.table, fn.defaults)]
  /\ UNCHANGED <<config, scen, db, seeded, pc, callName, cur, open, rets, tables, all>>
  /\ UNCHANGED syncVars
  /\ UNCHANGED pingVars
  /\ UNCHANGED histVars

\* PingJob: the result appended for the table, whatever the ping returned.
PingLabel ==
  /\ fn.f = "label"
  /\ \E err \in {NoError, "connect failed"} :
       fn' = [fn EXCEPT !.f = "pinged", !.result = PingResultFor(fn.table, err)]
  /\ UNCHANGED <<config, scen, db, seeded, pc, callName, cur, open, rets, tables, all>>
  /\ UNCHANGED syncVars
  /\ UNCHANGED pingVars
  /\ UNCHANGED histVars

\* ------------------------------------------------- getEntries on its own
\* A failed load that hands out what it had read so far.
LoadFailedPartial(entryList, entryMap, err) ==
  [entries |-> entryList, map |-> entryMap, err |-> err]

\* What getEntries returns on an error: nil, nil, err, whatever entryList and
\* entryMap held by then.
LoadFailed(entryList, entryMap, err) ==
  [entries |-> NilSlice, map |-> << >>, err |-> err]

\* The rows.Next() loop of getEntries over the rows the query returned, from
\* row i on: SliceScan fails at row failAt (0: never); then rows.Err(),
\* which fails when rowsErr.
RECURSIVE ScanRows(_, _, _, _, _, _, _)
ScanRows(job, rows, i, failAt, rowsErr, entryList, entryMap) ==
  IF i > Len(rows)
  THEN IF rowsErr THEN LoadFailed(entryList, entryMap, "rows failed")
       ELSE [entries |-> entryList, map |-> entryMap, err |-> NoError]
  ELSE IF i = failAt THEN LoadFailed(entryList, entryMap, "scan failed")
  ELSE LET cols == rows[i]
           key == pkTuple(cols, getPrimaryKeyIndices(job))
       IN ScanRows(job, rows, i + 1, failAt, rowsErr, Append(entryList, cols),
                   [k \in DOMAIN entryMap \cup {key} |->
                      IF k = key THEN cols ELSE entryMap[k]])

\* table.getEntries on the table stored as fn.heap, with the fault fn.fault.
GetEntries ==
  /\ fn.f = "getEntries"
  /\ LET rows == fetchAll(fn.heap, getPrimaryKeyIndices(TheJob))
         res == IF fn.fault.query THEN LoadFailed(<< >>, << >>, "query failed")
                ELSE ScanRows(TheJob, rows, 1, fn.fault.scan, fn.fault.rows, << >>, << >>)
     IN fn' = [fn EXCEPT !.f = "loaded", !.res = res]
  /\ UNCHANGED <<config, scen, db, seeded, pc, callName, cur, open, rets, tables, all>>
  /\ UNCHANGED syncVars
  /\ UNCHANGED pingVars
  /\ UNCHANGED histVars

\* ---------------------------------------------------- connect on its own
\* A connect that never finds a handle.
AlreadyConnectedNever(DB) == FALSE

\* t.DB != nil.
AlreadyConnected(DB) == DB # Nil

\* Every driver gets a DSN built for it.
CanSynthesizeAny(driver) == TRUE

\* The driver for which connect builds a DSN from the other fields.
CanSynthesize(driver) == driver = "mysql"

\* mysql.Config.FormatDSN for the fields connect sets.
FormatDSN(cfg) ==
  cfg.User \o ":" \o cfg.Password \o "@tcp(" \o HostPort(cfg.Host, cfg.Port) \o ")/" \o cfg.DB

\* The drivers registered with database/sql by the imports of the package.
Registered == {"mysql", "sqlite3"}

\* table.connect on a table with configuration cfg and handle DB, when opened
\* connections were opened before and the server answers or not (up): the
\* error returned, the handle of the table afterwards, the connections
\* opened by then, and the driver and DSN handed to sqlx.Connect, if any.
connect(cfg, DB, opened, up) ==
  LET none == [driver |-> "", dsn |-> ""]
      attempt(dsn) ==
        IF cfg.Driver \in Registered /\ up
        THEN [err |-> NoError, DB |-> opened + 1, opened |-> opened + 1,
              to |-> [driver |-> cfg.Driver, dsn |-> dsn]]
        ELSE [err |-> IF cfg.Driver \in Registered THEN "connect failed"
                      ELSE "sql: unknown driver",
              DB |-> Nil, opened |-> opened,
              to |-> [driver |-> cfg.Driver, dsn |-> dsn]]
  IN IF AlreadyConnected(DB)
     THEN [err |-> NoError, DB |-> DB, opened |-> opened, to |-> none]
     ELSE IF cfg.DSN # "" THEN attempt(cfg.DSN)
     ELSE IF CanSynthesize(cfg.Driver) THEN attempt(FormatDSN(cfg))
     ELSE IF cfg.Driver = "sqlite3"
          THEN [err |-> "for sqlite3, DSN must be provided directly",
                DB |-> DB, opened |-> opened, to |-> none]
     ELSE [err |-> "unsupported driver: " \o cfg.Driver,
           DB |-> DB, opened |-> opened, to |-> none]

\* Table configurations connect is called with.
ConnectConfigs ==
  { [Label |-> "", Table |-> "users", Driver |-> d, DSN |-> dsn, User |-> u,
     Password |-> "", Host |-> h, Port |-> port, DB |-> ""] :
      d \in {"mysql", "sqlite3", "postgres", ""}, dsn \in {"", "file:test.db"},
      u \in {"", "root"}, h \in {"", "db1"}, port \in {0, 3306} }

\* t.connect() on the table of fn, for the first time or again.
Connect ==
  /\ fn.f = "connect" /\ Len(fn.calls) < scen.runs
  /\ LET res == connect(fn.config, fn.DB, fn.opened, fn.up)
     IN fn' = [fn EXCEPT !.DB = res.DB, !.opened = res.opened,
                         !.calls = Append(@, [before |-> fn.DB, opened |-> fn.opened,
                                             res |-> res])]
  /\ UNCHANGED <<config, scen, db, seeded, pc, callName, cur, open, rets, tables, all>>
  /\ UNCHANGED syncVars
  /\ UNCHANGED pingVars
  /\ UNCHANGED histVars

NextSync ==
  \/ Seed
  \/ \E jobName \in CallNames \cup DOMAIN config.Jobs : ExecJob(jobName)
  \/ SourceConnect
  \/ SourceLoad
  \/ FanOut
  \/ \E d \in TargetDSNs(TheJob) : TargetConnect(d)
  \/ \E d \in TargetDSNs(TheJob) : TargetLoad(d)
  \/ \E d \in TargetDSNs(TheJob) : TargetExec(d)
  \/ \E d \in TargetDSNs(TheJob) : TargetSend(d)
  \/ ExecReturn

\* The steps of PingJob, of its checks and of its timers.
NextPing ==
  \/ \E jobName \in CallNames \cup DOMAIN config.Jobs : PingJob(jobName)
  \/ \E d \in Endpoints : PingConnect(d)
  \/ \E d \in Endpoints : PingQuery(d)
  \/ \E d \in Endpoints : TimerFire(d)
  \/ PingSource
  \/ \E d \in TargetDSNs(TheJob) : PingTarget(d)
  \/ PingReturn

\* The same, with tables that are dropped and created around the calls.
NextPingEnv ==
  \/ NextPing
  \/ \E d \in Endpoints : DropTable(d)
  \/ \E d \in Endpoints : CreateTable(d)

Next == NextSync \/ NextPingEnv

NextExecAll == NextSync \/ ExecAllJobs \/ ExecAllStore \/ ExecAllReturn

NextPingAll == NextPingEnv \/ PingAllJobs \/ PingAllStore \/ PingAllReturn

\* Single target, one call.
Spec == Init /\ [][Next]_vars

\* Single target, calls repeated.
SpecTwice == InitTwice /\ [][Next]_vars

\* Several targets, one call of ExecJob.
SpecFan == InitFan /\ [][NextSync]_vars

\* The targets of the job of the fan-out scenario.
FanTargets == { TargetConfig(i).DSN : i \in 1..NumTargets }

\* The goroutine started for target d, from connect to wg.Done().
Worker(d) == TargetConnect(d) \/ TargetLoad(d) \/ TargetExec(d) \/ TargetSend(d)

\* The goroutine that called ExecJob.
Orchestrator == SourceConnect \/ SourceLoad \/ FanOut \/ ExecReturn

\* The fan-out under a scheduler that lets every goroutine run that can take
\* a step, with database operations that return.
SpecFanLive ==
  /\ SpecFan
  /\ WF_vars(Orchestrator)
  /\ \A d \in FanTargets : WF_vars(Worker(d))

\* Several targets, one call of PingJob, every table in place.
SpecPing == InitFan /\ [][NextPing]_vars

\* Two jobs, ExecAllJobs or calls of ExecJob.
SpecExecAll == InitAll /\ [][NextExecAll]_vars

\* Two jobs, PingAllJobs or calls of PingJob.
SpecPingAll == InitAll /\ [][NextPingAll]_vars

\* A table of up to MaxRows rows in any storage order, checksummed up to
\* MaxRuns times.
InitChecksum ==
  /\ InitState(JobNames, Shapes, 1, KeyVals, MaxRows, MaxRuns)
  /\ fn \in { [f |-> "checksum", heap |-> h, sums |-> << >>] : h \in Heaps }

NextChecksum == LoadChecksum \/ Rewrite

SpecChecksum == InitChecksum /\ [][NextChecksum]_vars

\* A job configuration about to be validated.
InitValidate ==
  /\ InitState(JobNames, FanShapes, 1, FanKeyVals, 1, 1)
  /\ fn \in { [f |-> "validate", job |-> j, err |-> "unset"] : j \in JobConfigs }

NextValidate == Validate

SpecValidate == InitValidate /\ [][NextValidate]_vars

\* A table without a handle, and a server that answers or does not; connect
\* is called up to MaxRuns times.
InitConnect ==
  /\ InitState(JobNames, FanShapes, 1, FanKeyVals, 1, MaxRuns)
  /\ fn \in { [f |-> "connect", config |-> c, DB |-> Nil, opened |-> 0, up |-> up,
                calls |-> << >>] : c \in ConnectConfigs, up \in BOOLEAN }

NextConnect == Connect

SpecConnect == InitConnect /\ [][NextConnect]_vars

\* A table of up to MaxRows rows in any storage order, about to be loaded;
\* the query, the scan of one row or rows.Err() may fail.
InitEntries ==
  /\ InitState(JobNames, Shapes, 1, KeyVals, MaxRows, 1)
  /\ fn \in { [f |-> "getEntries", heap |-> h, fault |-> ft,
                res |-> LoadFailed(<< >>, << >>, "unset")] :
                h \in Heaps,
                ft \in [query : BOOLEAN, scan : 0..MaxRows, rows : BOOLEAN] }

NextEntries == GetEntries

SpecEntries == InitEntries /\ [][NextEntries]_vars

\* A table of a job as the configuration file declares it, with the
\* defaults of that file.
InitLabel ==
  /\ InitState(JobNames, FanShapes, 1, FanKeyVals, 1, 1)
  /\ fn \in { [f |-> "label", place |-> j, decl |-> t, table |-> t, defaults |-> d,
                loaded |-> FALSE, result |-> PingResultFor(t, "unset")] :
                j \in Places, t \in LabelTables, d \in LabelDefaults }

NextLabel == LoadTable \/ PingLabel

SpecLabel == InitLabel /\ [][NextLabel]_vars

TypeOK ==
  /\ pc \in {"idle", "connect", "load", "fanout", "wait", "pingsrc", "pingwait"}
  /\ wg \in 0..Len(TheJob.Targets)
  /\ Len(resultChan) <= ChanCap(TheJob)
  /\ \A d \in Endpoints : open[d] \in Nat

\* ---------------------------------------------------------------- properties
Targets == TargetDSNs(TheJob)

SourceDSN == TheJob.Source.DSN

\* The pass of target d in the current call is over.
PassOver(d) == passOut[d].err # "none"

\* The target's rows were loaded in the current call's pass.
Loaded(d) == stat[d].query = 1 /\ stat[d].fault # "query"

ChecksumOf(T) == checksumData(getEntries(TheJob, T).entries)

Ops(d) == { log[d][i].stmt.op : i \in DOMAIN log[d] }

\* C1 (convergence): once a target's pass has completed without error, the
\* target's rows are exactly the source's rows.
C1_Convergence ==
  \A d \in Targets : passOut[d].err = NoError => db[d] = db[SourceDSN]

\* A pass over a 3-column key that deleted, updated and inserted and ended
\* without error.
C1_Witness ==
  \E d \in Targets :
    /\ passOut[d].err = NoError /\ passOut[d].synced
    /\ Len(TheJob.PrimaryKeys) = 3
    /\ Ops(d) = {"DELETE", "UPDATE", "INSERT"}
    /\ db0[d] # db[SourceDSN]

\* C2 (checksum short-circuit): a pass that loaded a target whose checksum
\* equals the source checksum executes no statement, leaves the target as it
\* was, and returns Synced=false, no error and the source checksum.
C2_ShortCircuit ==
  \A d \in Targets :
    (PassOver(d) /\ Loaded(d) /\ ChecksumOf(db0[d]) = ChecksumOf(db0[SourceDSN]))
      => /\ log[d] = << >>
         /\ db[d] = db0[d]
         /\ passOut[d] = [checksum |-> src.checksum, synced |-> FALSE, err |-> NoError]
         /\ src.checksum = ChecksumOf(db0[SourceDSN])
         /\ out[d] = SyncResult(TargetOf(TheJob, d), src.checksum, FALSE, NoError)

\* A short-circuited pass over a non-empty table.
C2_Witness ==
  \E d \in Targets :
    /\ PassOver(d) /\ Loaded(d)
    /\ db0[d] = db0[SourceDSN] /\ Cardinality(db0[d]) = 2
    /\ ~passOut[d].synced

\* A call of ExecJob for a configured job is running or was the latest call.
ExecCall == NoPingYet /\ callName \in DOMAIN config.Jobs

\* That call has returned.
ExecReturned ==
  ExecCall /\ pc = "idle" /\ rets # << >> /\ LastRet.op = "ExecJob"

ResultsFor(ret, d) == { i \in DOMAIN ret.results : ret.results[i].Target.DSN = d }

ErrorOf(fault) ==
  CASE fault = "connect" -> "connect failed"
    [] fault = "query" -> "query failed"
    [] fault = "exec" -> "exec failed"
    [] OTHER -> NoError

\* The return value of the call before the current (or latest) one, if any.
HasPrev == IF pc = "idle" THEN Len(rets) >= 2 ELSE Len(rets) >= 1

PrevRet == IF pc = "idle" THEN rets[Len(rets) - 1] ELSE rets[Len(rets)]

PrevSucceeded(d) ==
  /\ HasPrev
  /\ PrevRet.op = "ExecJob" /\ PrevRet.err = NoError
  /\ \E i \in ResultsFor(PrevRet, d) : PrevRet.results[i].Error = NoError

\* C3 (no-op idempotence): in an ExecJob call that follows a call which
\* succeeded for a target, no statement is executed against that target and
\* every outcome reported for it has Synced=false.
C3_Idempotence ==
  \A d \in Targets :
    PrevSucceeded(d)
      => /\ log[d] = << >>
         /\ ~passOut[d].synced
         /\ db[d] = db0[d]
         /\ (pc = "idle" /\ LastRet.op = "ExecJob")
              => \A i \in ResultsFor(LastRet, d) : ~LastRet.results[i].Synced

\* Two calls in a row: the first synced the target, the second reported
\* Synced=false for it.
C3_Witness ==
  \E d \in Targets :
    /\ pc = "idle" /\ Len(rets) = 2
    /\ rets[1].op = "ExecJob" /\ rets[1].err = NoError
    /\ \E i \in ResultsFor(rets[1], d) :
         rets[1].results[i].Synced /\ rets[1].results[i].Error = NoError
    /\ rets[2].op = "ExecJob" /\ rets[2].err = NoError
    /\ \E i \in ResultsFor(rets[2], d) :
         ~rets[2].results[i].Synced /\ rets[2].results[i].Error = NoError
    /\ db[d] # {}

\* What a pass of target d returns when nothing fails in it: a function of
\* the source's and the target's own content only.
ExpectedPass(d) ==
  [checksum |-> ChecksumOf(db0[d]), synced |-> db0[d] # db0[SourceDSN], err |-> NoError]

\* C4 (fan-out isolation): when a target A has failed, every other target B
\* has completed its pass by the time ExecJob returns, and a B that met no
\* failure of its own equals the source and reports the Synced and Error it
\* reports when A succeeds.
C4_Isolation ==
  \A a \in Targets : \A b \in Targets \ {a} :
    (ExecCall /\ stat[a].fault # "none")
      => /\ ExecReturned => PassOver(b)
         /\ (PassOver(b) /\ stat[b].fault = "none")
              => /\ db[b] = db[SourceDSN]
                 /\ passOut[b] = ExpectedPass(b)
                 /\ out[b] = SyncResult(TargetOf(TheJob, b), ExpectedPass(b).checksum,
                                        ExpectedPass(b).synced, NoError)

\* ExecJob has returned; one target failed on a statement and another was
\* brought in line with the source.
C4_Witness ==
  \E a \in Targets : \E b \in Targets \ {a} :
    /\ ExecReturned
    /\ stat[a].fault = "exec"
    /\ stat[b].fault = "none" /\ passOut[b].synced
    /\ db[b] = db[SourceDSN] /\ db[b] # db0[b]

\* C5 (results): when ExecJob returns a nil error, Results holds exactly one
\* SyncResult per configured target, and the result naming a target carries
\* what that target's pass returned.
C5_OneResultPerTarget ==
  (ExecReturned /\ LastRet.err = NoError)
    => /\ Len(LastRet.results) = Len(TheJob.Targets)
       /\ \A d \in Targets :
            /\ Cardinality({ i \in DOMAIN LastRet.results :
                               LastRet.results[i].Target = TargetOf(TheJob, d) }) = 1
            /\ \A i \in DOMAIN LastRet.results :
                 LastRet.results[i].Target = TargetOf(TheJob, d)
                   => LastRet.results[i] =
                        SyncResult(TargetOf(TheJob, d), passOut[d].checksum,
                                   passOut[d].synced, passOut[d].err)

\* The results came back in the reverse of the configured order, with
\* different outcomes.
C5_Witness ==
  /\ ExecReturned /\ LastRet.err = NoError
  /\ Len(LastRet.results) >= 2
  /\ LastRet.results[1].Target = TheJob.Targets[2]
  /\ LastRet.results[2].Target = TheJob.Targets[1]
  /\ LastRet.results[1].Synced /\ LastRet.results[2].Error # NoError

\* C6 (source failure): when the source cannot be connected or loaded,
\* ExecJob returns a non-nil error with an empty checksum and no results, and
\* no target has been connected to, read or written.
C6_SourceFailureAborts ==
  (ExecCall /\ stat[SourceDSN].fault # "none")
    => /\ pc = "idle"
       /\ LastRet = Ret("ExecJob", callName, ErrorOf(stat[SourceDSN].fault),
                        EmptyChecksum, << >>)
       /\ LastRet.err # NoError
       /\ \A d \in Targets :
            /\ stat[d] = ZeroStat
            /\ log[d] = << >>
            /\ db[d] = db0[d]
            /\ wpc[d] = "none"

\* The source was connected but could not be loaded, with seeded tables.
C6_Witness ==
  /\ ExecCall /\ stat[SourceDSN].fault = "query"
  /\ pc = "idle"
  /\ \E d \in Targets : db[d] # db[SourceDSN]

C8_JobNotFound ==
  (callName # "" /\ callName \notin DOMAIN config.Jobs)
    => /\ pc = "idle"
       /\ LastRet.name = callName
       /\ LastRet.err = "job not found"
       /\ LastRet.checksum = EmptyChecksum /\ LastRet.results = << >>
       /\ \A d \in Endpoints :
            /\ stat[d] = ZeroStat
            /\ log[d] = << >>
            /\ chk[d] = "none"
            /\ db[d] = db0[d]
       /\ \A d \in Targets : wpc[d] = "none" /\ ppc[d] = "none"

\* PingJob, then ExecJob, were both called with an unknown name.
C8_Witness ==
  /\ Len(rets) = 2
  /\ rets[1].op = "PingJob" /\ rets[1].err = "job not found"
  /\ rets[2].op = "ExecJob" /\ rets[2].err = "job not found"
  /\ callName \notin DOMAIN config.Jobs

\* The statements of target d's pass: those still to run and those run.
Planned(d) ==
  stmts[d].inserts \cup stmts[d].updates \cup stmts[d].deletes
    \cup { log[d][i].stmt : i \in DOMAIN log[d] }

HasKey(T, k) == \E r \in T : KeyOf(TheJob, r) = k

RowAt(T, k) == CHOOSE r \in T : KeyOf(TheJob, r) = k

\* C9 (equal rows are skipped): every UPDATE emitted or executed in a pass is
\* for a key present in both source and target whose rows differ; none is
\* for a shared key whose full row is equal in both.
C9_EqualRowsSkipped ==
  \A d \in Targets :
    \A u \in { s \in Planned(d) : s.op = "UPDATE" } :
      /\ HasKey(db0[SourceDSN], u.key)
      /\ HasKey(db0[d], u.key)
      /\ RowAt(db0[SourceDSN], u.key) # RowAt(db0[d], u.key)

\* The UPDATE the claim describes for source row r.
ExpectedUpdate(r) ==
  LET job == TheJob
      nonKey == SelectSeq([i \in DOMAIN job.Columns |-> i],
                          LAMBDA i : job.Columns[i] \notin Range(job.PrimaryKeys))
  IN [op |-> "UPDATE",
      key |-> KeyOf(job, r),
      where |-> { <<job.PrimaryKeys[i], TupleComponent(KeyOf(job, r), i)>> :
                    i \in DOMAIN job.PrimaryKeys },
      set |-> [n \in DOMAIN nonKey |-> <<job.Columns[nonKey[n]], r[nonKey[n]]>>],
      values |-> << >>]

\* Source row r has its key in target d's table with other non-key values.
DiffersInTarget(d, r) ==
  /\ HasKey(db0[d], KeyOf(TheJob, r))
  /\ RowAt(db0[d], KeyOf(TheJob, r)) # r

\* Once target d's statements are built, such a row has exactly one
\* statement, the expected UPDATE, whose key tuple carries the row's value of
\* primary-key column i as component i.
C10_Planned ==
  \A d \in Targets :
    (Len(TheJob.PrimaryKeys) >= 2 /\ Loaded(d))
      => \A r \in db0[SourceDSN] :
           DiffersInTarget(d, r)
             => /\ { s \in Planned(d) : s.key = KeyOf(TheJob, r) } = {ExpectedUpdate(r)}
                /\ \A i \in DOMAIN TheJob.PrimaryKeys :
                     TupleComponent(KeyOf(TheJob, r), i)
                       = r[ColumnIndex(TheJob.Columns, TheJob.PrimaryKeys[i])]
                /\ \A n \in DOMAIN ExpectedUpdate(r).set :
                     ExpectedUpdate(r).set[n][1] \notin Range(TheJob.PrimaryKeys)

\* An executed UPDATE replaces the row of its key by the source's row and
\* leaves every other row of the target as it was.
C10_Executed ==
  \A d \in Targets :
    (/\ Len(TheJob.PrimaryKeys) >= 2
     /\ Len(log'[d]) = Len(log[d]) + 1
     /\ log'[d][Len(log'[d])].ok
     /\ log'[d][Len(log'[d])].stmt.op = "UPDATE")
      => LET k == log'[d][Len(log'[d])].stmt.key
         IN /\ Cardinality(db'[d]) = Cardinality(db[d])
            /\ \A r \in db[d] :
                 IF KeyOf(TheJob, r) = k
                 THEN RowAt(db0[SourceDSN], k) \in db'[d]
                 ELSE r \in db'[d]

\* C10 (composite-key correctness): with a 2- or 3-column primary key, a
\* source row whose key is in the target with different non-key columns gets
\* one UPDATE and no INSERT; its WHERE clause equates primary-key column i
\* with key component i, it sets every non-key column to the source value and
\* no key column, and its execution changes no other row of the target.
C10_CompositeKey == []C10_Planned /\ [][C10_Executed]_vars

\* With a 3-column key, the UPDATE of a differing row was executed on a
\* target that holds a second row, and the pass ended without error.
C10_Witness ==
  \E d \in Targets : \E r \in db0[SourceDSN] :
    /\ Len(TheJob.PrimaryKeys) = 3
    /\ DiffersInTarget(d, r)
    /\ Cardinality(db0[d]) = 2
    /\ \E i \in DOMAIN log[d] : log[d][i].ok /\ log[d][i].stmt = ExpectedUpdate(r)
    /\ passOut[d].err = NoError
    /\ r \in db[d]

\* The statements executed against target d in the current pass.
Executed(d) == { i \in DOMAIN log[d] : log[d][i].ok }

\* C11 (Synced): for every pass that is over, completed or aborted by a
\* failure, Synced is true if and only if at least one mutating statement
\* was executed against the target during the pass.
C11_SyncedIffExecuted ==
  \A d \in Targets :
    PassOver(d) => (passOut[d].synced <=> Executed(d) # {})

\* C12 (TargetChecksum): the checksum reported by a pass that ended without
\* error is the checksum of the rows loaded at the start of the pass; after a
\* mutating pass it is not the checksum of the target's content.
C12_ChecksumBeforeMutation ==
  \A d \in Targets :
    (PassOver(d) /\ passOut[d].err = NoError)
      => /\ passOut[d].checksum = ChecksumOf(db0[d])
         /\ out[d].TargetChecksum = ChecksumOf(db0[d])
         /\ passOut[d].synced => passOut[d].checksum # ChecksumOf(db[d])

\* A pass emptied a two-row target and reported the two rows' checksum.
C12_Witness ==
  \E d \in Targets :
    /\ PassOver(d) /\ passOut[d].err = NoError /\ passOut[d].synced
    /\ Cardinality(db0[d]) = 2 /\ db[d] = {}
    /\ passOut[d].checksum = ChecksumOf(db0[d])
    /\ pc = "idle"

\* The results of the running or latest PingJob call, as far as they exist.
PingResults ==
  IF pc \in {"pingsrc", "pingwait"} THEN pres \o resultChan
  ELSE IF rets # << >> /\ LastRet.op = "PingJob" /\ ~NoPingYet THEN LastRet.results
  ELSE << >>

\* pingWithTimeout has returned for endpoint d.
PingReturned(d) == \E i \in DOMAIN PingResults : PingResults[i].Config.DSN = d

\* The error it returned.
Reported(d) ==
  PingResults[CHOOSE i \in DOMAIN PingResults : PingResults[i].Config.DSN = d].Error

\* C13 as stated (ping timeout): when the timer fired before the check had
\* delivered a result, pingWithTimeout has returned 'ping operation timed
\* out', and no later step of the check changes that.
C13_TimerFirstAsStated ==
  \A d \in Endpoints :
    (PingReturned(d) /\ stat[d].first = "timer") => Reported(d) = TimedOut

\* What pingWithTimeout does guarantee on a timeout (a lemma next to C13):
\* when the select chose with the timer fired
\* and no result delivered, pingWithTimeout returned 'ping operation timed
\* out'; this stays the reported outcome while the check runs on and after it
\* has delivered its own result.
C13_TimeoutReported ==
  \A d \in Endpoints :
    (PingReturned(d) /\ stat[d].ready = "timer") => Reported(d) = TimedOut

\* PingJob has returned a timeout for a target whose check was not over
\* then; the check has since delivered a nil result, which nothing reads.
C13_Witness ==
  \E d \in Targets :
    /\ pc = "idle" /\ PingReturned(d)
    /\ stat[d].ready = "timer" /\ Reported(d) = TimedOut
    /\ chk[d] = "done" /\ pingChan[d] = NoError

\* The outcome of the check itself.
CheckResult(d) == ErrorOf(stat[d].fault)

\* C14 as stated: when the check delivered its result before the timer
\* fired, pingWithTimeout returned the check's own result and not the
\* timeout error.
C14_ResultFirstAsStated ==
  \A d \in Endpoints :
    (PingReturned(d) /\ stat[d].first = "result")
      => Reported(d) = CheckResult(d) /\ Reported(d) # TimedOut

\* What pingWithTimeout does guarantee on a result (a lemma next to C14):
\* when the select chose with a result delivered and the
\* timer not fired, pingWithTimeout returned the check's own result (nil or
\* its error) and not the timeout error.
C14_ResultReported ==
  \A d \in Endpoints :
    (PingReturned(d) /\ stat[d].ready = "result")
      => /\ Reported(d) = CheckResult(d)
         /\ Reported(d) # TimedOut
         /\ chk[d] = "done"

\* PingJob has returned the checks' own results: nil for the source, the
\* query error for a target.
C14_Witness ==
  \E d \in Targets :
    /\ pc = "idle" /\ PingReturned(d) /\ PingReturned(SourceDSN)
    /\ stat[SourceDSN].ready = "result" /\ Reported(SourceDSN) = NoError
    /\ stat[d].ready = "result" /\ Reported(d) = "query failed"

\* PingJob was called for a configured job and has returned.
PingJobReturned ==
  /\ pc = "idle" /\ rets # << >> /\ LastRet.op = "PingJob"
  /\ callName \in DOMAIN config.Jobs

\* A target's probe (its worker, check or timer) has started.
ProbeStarted(d) == ppc[d] # "none" \/ chk[d] # "none" \/ timer[d] # "off"

\* C15 (PingJob results): PingJob on a job with N targets returns 1+N
\* results, the first for the source and one for each target, each with its
\* endpoint's configuration; and no target probe starts before the source's
\* pingWithTimeout has returned.
C15_PingJobResults ==
  /\ PingJobReturned
       => /\ LastRet.err = NoError
          /\ Len(LastRet.results) = 1 + Len(TheJob.Targets)
          /\ LastRet.results[1].Config = TheJob.Source
          /\ \A d \in Targets :
               Cardinality({ i \in 2..Len(LastRet.results) :
                               LastRet.results[i].Config = TargetOf(TheJob, d) }) = 1
  /\ \A d \in Targets :
       ProbeStarted(d)
         => /\ pc # "pingsrc"
            /\ Len(pres) >= 1 /\ pres[1].Config = TheJob.Source
            /\ timer[SourceDSN] = "off"

\* The targets' results came back in the reverse of the configured order,
\* after the source's.
C15_Witness ==
  /\ PingJobReturned
  /\ Len(LastRet.results) >= 3
  /\ LastRet.results[1].Config = TheJob.Source
  /\ LastRet.results[2].Config = TheJob.Targets[2]
  /\ LastRet.results[3].Config = TheJob.Targets[1]
  /\ LastRet.results[2].Error = TimedOut /\ LastRet.results[3].Error = NoError

\* C16 (missing table): a ping that reached its endpoint and did not time
\* out reports a non-nil error for that endpoint exactly when its table (or a
\* column of it) did not exist, whatever the other endpoints' tables are;
\* PingJob's own error is nil; with the table in place the same ping reports
\* nil.
C16_MissingTable ==
  /\ PingJobReturned => LastRet.err = NoError
  /\ \A d \in Endpoints :
       (PingReturned(d) /\ stat[d].ready = "result" /\ stat[d].fault # "connect")
         => Reported(d) = IF stat[d].tab THEN NoError ELSE "query failed"

\* The target's table was missing at the first PingJob and created before
\* the second: first a query error for the target and nil for the source,
\* then nil for both.
C16_Witness ==
  \E d \in Targets :
    /\ pc = "idle" /\ Len(rets) = 2
    /\ rets[1].op = "PingJob" /\ rets[1].err = NoError
    /\ rets[1].results[1].Error = NoError
    /\ rets[1].results[2].Config.DSN = d /\ rets[1].results[2].Error = "query failed"
    /\ rets[2].op = "PingJob" /\ rets[2].err = NoError
    /\ rets[2].results[1].Error = NoError
    /\ rets[2].results[2].Config.DSN = d /\ rets[2].results[2].Error = NoError

\* The returns of the calls made for job n.
CallsOf(n) == { i \in DOMAIN rets : rets[i].name = n }

\* C17 (PingAllJobs): PingAllJobs returns a nil error and a map with one
\* entry per configured job; the entry of a job is what that job's one
\* PingJob call returned, 1+N results, whatever the other jobs' probes did.
C17_PingAllJobs ==
  (all.op = "PingAllJobs" /\ all.done)
    => /\ all.err = NoError
       /\ DOMAIN all.results = DOMAIN config.Jobs
       /\ \A n \in DOMAIN config.Jobs :
            /\ Cardinality(CallsOf(n)) = 1
            /\ \A i \in CallsOf(n) :
                 /\ rets[i].op = "PingJob" /\ rets[i].err = NoError
                 /\ all.results[n] = rets[i].results
            /\ Len(all.results[n]) = 1 + Len(config.Jobs[n].Targets)
            /\ all.results[n][1].Config = config.Jobs[n].Source

\* PingAllJobs has returned: every probe of one job failed or timed out,
\* every probe of the other succeeded.
C17_Witness ==
  /\ all.op = "PingAllJobs" /\ all.done
  /\ \E a \in DOMAIN config.Jobs : \E b \in DOMAIN config.Jobs \ {a} :
       /\ all.results[a][1].Error = TimedOut
       /\ all.results[a][2].Error = "connect failed"
       /\ \A i \in DOMAIN all.results[b] : all.results[b][i].Error = NoError

\* C18 (ExecAllJobs): ExecAllJobs executes every configured job exactly once
\* and returns a result map and an error map keyed by every job name, each
\* entry being what the job's ExecJob call returned; a job-level error of one
\* job does not keep the others from being executed.
C18_ExecAllJobs ==
  (all.op = "ExecAllJobs" /\ all.done)
    => /\ DOMAIN all.results = DOMAIN config.Jobs
       /\ DOMAIN all.errors = DOMAIN config.Jobs
       /\ Len(rets) = Cardinality(DOMAIN config.Jobs)
       /\ \A n \in DOMAIN config.Jobs :
            /\ Cardinality(CallsOf(n)) = 1
            /\ \A i \in CallsOf(n) :
                 /\ rets[i].op = "ExecJob"
                 /\ all.results[n] = ExecJobResult(rets[i].checksum, rets[i].results)
                 /\ all.errors[n] = rets[i].err

\* ExecAllJobs has returned: the job run first could not connect to its
\* source, the job run after it synced its target.
C18_Witness ==
  /\ all.op = "ExecAllJobs" /\ all.done
  /\ Len(rets) = 2
  /\ all.errors[rets[1].name] = "connect failed"
  /\ all.results[rets[1].name] = ExecJobResult(EmptyChecksum, << >>)
  /\ all.errors[rets[2].name] = NoError
  /\ Len(all.results[rets[2].name].Results) = 1
  /\ all.results[rets[2].name].Results[1].Synced

\* C19 (checksum determinism): every checksum computed on a table is the
\* checksum of its primary-key-ordered row list, so the checksums computed on
\* the same rows agree, whether the table was stored in the same order or in
\* another one when each of them was computed.
C19_ChecksumDeterministic ==
  fn.f = "checksum" =>
    \A i \in DOMAIN fn.sums :
      /\ fn.sums[i].checksum = ChecksumOf(Range(fn.sums[i].heap))
      /\ \A j \in DOMAIN fn.sums :
           Range(fn.sums[i].heap) = Range(fn.sums[j].heap)
             => fn.sums[i].checksum = fn.sums[j].checksum

\* Two rows stored in one order, then in the other, and checksummed in both;
\* the first storage order is not the primary-key order.
C19_Witness ==
  /\ fn.f = "checksum" /\ Len(fn.sums) = 2
  /\ Len(fn.sums[1].heap) = 2
  /\ fn.sums[1].heap # fn.sums[2].heap
  /\ fn.sums[1].heap # fn.sums[1].entries
  /\ fn.sums[1].checksum = fn.sums[2].checksum

\* The connection part of a table configuration is acceptable: no DSN given
\* together with a user, password, host, port or db.
DSNAlone(t) ==
  t.DSN = "" \/ (t.User = "" /\ t.Password = "" /\ t.Host = "" /\ t.Port = 0 /\ t.DB = "")

TableAcceptable(t) == t.Table # "" /\ t.Driver # "" /\ DSNAlone(t)

\* C20 (job validation): validation returns no error exactly for a job with
\* 1 to 3 primary-key columns, a non-empty column list that holds every
\* primary-key column, at least one target, and a source and targets that
\* each have a table name, a driver and no DSN next to another connection
\* parameter; a job with more than 3 primary-key columns is rejected.
C20_JobValidation ==
  fn.f = "validated" =>
    /\ fn.err = NoError <=>
         /\ Len(fn.job.PrimaryKeys) \in 1..3
         /\ fn.job.Columns # << >>
         /\ Range(fn.job.PrimaryKeys) \subseteq Range(fn.job.Columns)
         /\ Len(fn.job.Targets) >= 1
         /\ TableAcceptable(fn.job.Source)
         /\ \A i \in DOMAIN fn.job.Targets : TableAcceptable(fn.job.Targets[i])
    /\ Len(fn.job.PrimaryKeys) > 3 => fn.err # NoError

\* A job that is acceptable but for its 4-column primary key was rejected.
C20_Witness ==
  /\ fn.f = "validated"
  /\ Len(fn.job.PrimaryKeys) = 4
  /\ Range(fn.job.PrimaryKeys) \subseteq Range(fn.job.Columns)
  /\ TableAcceptable(fn.job.Source)
  /\ Len(fn.job.Targets) = 2
  /\ \A i \in DOMAIN fn.job.Targets : TableAcceptable(fn.job.Targets[i])
  /\ fn.err = "has too many primary keys"

\* The first non-empty string of a sequence ("" when there is none).
RECURSIVE FirstNonEmpty(_, _)
FirstNonEmpty(strs, i) ==
  IF i > Len(strs) THEN ""
  ELSE IF strs[i] # "" THEN strs[i]
  ELSE FirstNonEmpty(strs, i + 1)

\* C21 (label precedence): the label a ping outcome carries for a table of a
\* loaded configuration is the first non-empty of the table's own label, its
\* host's default label, its DSN, host:port, host and :port, and otherwise
\* "source" for the source or "target N" for the N-th target.
C21_LabelPrecedence ==
  (fn.f = "pinged" /\ fn.loaded) =>
    LET host == IF fn.decl.Host # "" THEN MapGetHost(fn.defaults.Hosts, fn.decl.Host)
                ELSE NoHostDefaults
        dsn == IF fn.decl.DSN # "" THEN fn.decl.DSN ELSE host.DSN
        port == IF fn.decl.Port # 0 THEN fn.decl.Port ELSE host.Port
        h == fn.decl.Host
    IN ReportedLabel(fn.result) =
         FirstNonEmpty(<< fn.decl.Label, host.Label, dsn,
                          IF h # "" /\ port # 0 THEN HostPort(h, port) ELSE "",
                          h,
                          IF port # 0 THEN HostPort("", port) ELSE "",
                          IF fn.place = 0 THEN "source"
                          ELSE "target " \o ToString(fn.place) >>, 1)

KeysOf(T) == { KeyOf(TheJob, r) : r \in T }

StmtsOf(d, op) == { s \in Planned(d) : s.op = op }

\* The statements that were executed (successfully) against target d.
Done(d, op) == { log[d][i].stmt : i \in { j \in Executed(d) : log[d][j].stmt.op = op } }

\* The target was loaded and its checksum differs from the source checksum
\* handed to its worker.
Differs(d) == Loaded(d) /\ ChecksumOf(db0[d]) # src.checksum

\* C22 (inserts and deletes): in a pass whose checksums differ, the INSERTs
\* are for exactly the keys of the source that the target lacks, one per key
\* with the full source row, and the DELETEs for exactly the keys of the
\* target that the source lacks, one per key; no statement is executed twice,
\* and a pass that ends without error has executed every one of them.
C22_InsertsAndDeletes ==
  \A d \in Targets :
    Differs(d) =>
      LET ins == StmtsOf(d, "INSERT")
          del == StmtsOf(d, "DELETE")
      IN /\ { s.key : s \in ins } = KeysOf(db0[SourceDSN]) \ KeysOf(db0[d])
         /\ \A s \in ins : s.values \in db0[SourceDSN] /\ KeyOf(TheJob, s.values) = s.key
         /\ { s.key : s \in del } = KeysOf(db0[d]) \ KeysOf(db0[SourceDSN])
         /\ \A s1, s2 \in ins : s1.key = s2.key => s1 = s2
         /\ \A s1, s2 \in del : s1.key = s2.key => s1 = s2
         /\ \A i, j \in DOMAIN log[d] : log[d][i].stmt = log[d][j].stmt => i = j
         /\ (PassOver(d) /\ passOut[d].err = NoError)
              => Done(d, "INSERT") = ins /\ Done(d, "DELETE") = del

\* A pass ended without error after deleting the one key only the target had
\* and inserting the one key only the source had.
C22_Witness ==
  \E d \in Targets :
    /\ PassOver(d) /\ passOut[d].err = NoError /\ Differs(d)
    /\ Cardinality(Done(d, "INSERT")) = 1
    /\ Cardinality(Done(d, "DELETE")) = 1
    /\ KeysOf(db[d]) = KeysOf(db0[SourceDSN])
    /\ KeysOf(db0[d]) # KeysOf(db0[SourceDSN])

\* The table that the statements executed so far make of target d's table
\* as it was before the pass.
RECURSIVE Replay(_, _, _)
Replay(T, entries, i) ==
  IF i > Len(entries) THEN T
  ELSE Replay(IF entries[i].ok THEN ApplyStmt(TheJob, T, entries[i].stmt) ELSE T,
              entries, i + 1)

\* C23 (abort on first failure): once a statement of target d's pass has
\* failed, it stays the last statement run against d in the call, the pass
\* is over with the failure as d's error (in the result ExecJob returns, too),
\* and the target holds what the statements executed before it made of it.
C23_AbortOnFailure ==
  \A d \in Targets :
    \A i \in DOMAIN log[d] :
      ~log[d][i].ok =>
        /\ i = Len(log[d])
        /\ PassOver(d) /\ passOut[d].err = "exec failed"
        /\ out[d].Error = "exec failed"
        /\ wpc[d] \notin {"sync", "exec"}
        /\ db[d] = Replay(db0[d], log[d], 1)
        /\ ExecReturned =>
             \A n \in ResultsFor(LastRet, d) : LastRet.results[n].Error = "exec failed"

\* ExecJob has returned after the second statement of a pass failed: the
\* first one's effect is still in the target, a third one was never run.
C23_Witness ==
  \E d \in Targets :
    /\ ExecReturned
    /\ Len(log[d]) = 2 /\ log[d][1].ok /\ ~log[d][2].ok
    /\ db[d] # db0[d]
    /\ Cardinality(Planned(d)) = 3
    /\ ResultsFor(LastRet, d) # {}

\* When ExecJob has returned, no worker of the call is between its start and
\* its end.
C24_Joined ==
  ExecReturned => \A d \in Targets : wpc[d] \in {"none", "done"}

\* While ExecJob stays returned, nothing is done to a target: no connect, no
\* query, no statement, no change of its rows or of its open connections.
C24_Quiet ==
  (ExecReturned /\ rets' = rets) =>
    \A d \in Targets :
      /\ stat'[d] = stat[d] /\ log'[d] = log[d]
      /\ db'[d] = db[d] /\ open'[d] = open[d]

\* C24 (join barrier): ExecJob returns only after every target worker has
\* finished; after it has returned, no connect, read or mutating statement
\* happens on any target of the job.
C24_JoinBarrier == []C24_Joined /\ [][C24_Quiet]_vars

\* ExecJob has returned after one worker executed a statement and another
\* failed to connect; both are done.
C24_Witness ==
  /\ ExecReturned /\ LastRet.err = NoError
  /\ \A d \in Targets : wpc[d] = "done"
  /\ \E d \in Targets : log[d] # << >> /\ passOut[d].err = NoError
  /\ \E d \in Targets : stat[d].fault = "connect"

\* A worker that is about to report its result finds room in the channel.
C25_NeverBlocks ==
  \A d \in Targets : wpc[d] = "send" => Len(resultChan) < ChanCap(TheJob)

\* A call of ExecJob is under way.
C25_Running == ExecCall /\ pc # "idle"

\* C25 (no deadlock in the fan-out): no worker ever finds the result channel
\* full when it reports, although the channel is read only after the barrier;
\* and when every step of every pass returns, a call of ExecJob under way
\* returns.
C25_NoDeadlock == []C25_NeverBlocks /\ (C25_Running ~> ExecReturned)

\* Every worker has reported and the orchestrator has not yet read anything:
\* the channel holds one result per target.
C25_Witness ==
  /\ pc = "wait" /\ wg = 0
  /\ Len(resultChan) = Len(TheJob.Targets)
  /\ Len(TheJob.Targets) = NumTargets
  /\ \A d \in Targets : wpc[d] = "done"

\* C26 (the source is read-only): in one call of ExecJob the source table is
\* queried at most once (exactly once when the call gets past the load), no
\* statement is run against it and its rows stay as they were, and the row
\* map and the checksum handed to the workers stay what the load produced.
C26_SourceReadOnly ==
  ExecCall =>
    /\ stat[SourceDSN].query <= 1
    /\ pc \in {"fanout", "wait"} => stat[SourceDSN].query = 1
    /\ (ExecReturned /\ LastRet.err = NoError) => stat[SourceDSN].query = 1
    /\ log[SourceDSN] = << >>
    /\ db[SourceDSN] = db0[SourceDSN]
    /\ src # NoSource =>
         /\ src.map = getEntries(TheJob, db0[SourceDSN]).map
         /\ src.entries = getEntries(TheJob, db0[SourceDSN]).entries
         /\ src.checksum = ChecksumOf(db0[SourceDSN])

\* Every worker of a call has executed a statement with the source's row in
\* hand, and ExecJob has returned.
C26_Witness ==
  /\ ExecReturned /\ LastRet.err = NoError
  /\ db0[SourceDSN] # {}
  /\ src.map # << >>
  /\ \A d \in Targets : log[d] # << >> /\ passOut[d].err = NoError
  /\ Cardinality(Targets) = NumTargets

\* The place of a statement's kind in the order of execution.
Rank(op) == CASE op = "DELETE" -> 1 [] op = "UPDATE" -> 2 [] op = "INSERT" -> 3

\* The three statement lists syncTarget builds from the source's rows and
\* target d's rows as they were loaded.
Computed(d) ==
  Diff(TheJob, getEntries(TheJob, db0[SourceDSN]).map, getEntries(TheJob, db0[d]).map)

\* C27 (phase order): a statement is run against a target only after the
\* target was loaded and checksummed and the whole set of statements was
\* computed from the rows loaded; the statements run and those still to run
\* are that set at every point of the pass, and they run DELETEs first, then
\* UPDATEs, then INSERTs.
C27_PhaseOrder ==
  \A d \in Targets :
    /\ (log[d] # << >> \/ wpc[d] = "exec") =>
         /\ Loaded(d)
         /\ PassOver(d) \/ tsum[d] = ChecksumOf(db0[d])
         /\ LET c == Computed(d)
            IN Planned(d) = c.inserts \cup c.updates \cup c.deletes
    /\ \A i, j \in DOMAIN log[d] :
         i < j => Rank(log[d][i].stmt.op) <= Rank(log[d][j].stmt.op)
    /\ \A i \in DOMAIN log[d] :
         \A s \in stmts[d].inserts \cup stmts[d].updates \cup stmts[d].deletes :
           Rank(log[d][i].stmt.op) <= Rank(s.op)

\* A pass ran a DELETE, an UPDATE and an INSERT, in this order, and ended
\* without error.
C27_Witness ==
  \E d \in Targets :
    /\ PassOver(d) /\ passOut[d].err = NoError
    /\ Len(log[d]) = 3
    /\ log[d][1].stmt.op = "DELETE"
    /\ log[d][2].stmt.op = "UPDATE"
    /\ log[d][3].stmt.op = "INSERT"

\* C28 (statement sets are disjoint by key): in every pass, at most one
\* statement is built for a primary key, so no key is both inserted and
\* deleted, inserted and updated, or updated and deleted; and no key has two
\* statements run against it.
C28_DisjointByKey ==
  \A d \in Targets :
    /\ \A s1, s2 \in Planned(d) : s1.key = s2.key => s1 = s2
    /\ \A i, j \in DOMAIN log[d] : log[d][i].stmt.key = log[d][j].stmt.key => i = j

\* A pass with a DELETE, an UPDATE and an INSERT, for three keys.
C28_Witness ==
  \E d \in Targets :
    /\ PassOver(d) /\ passOut[d].err = NoError
    /\ { s.op : s \in Planned(d) } = {"DELETE", "UPDATE", "INSERT"}
    /\ Cardinality({ s.key : s \in Planned(d) }) = 3
    /\ Len(log[d]) = 3

\* The keys on which table T and the source disagree: those of the rows
\* that one of the two holds and the other does not.
Disagree(T) == KeysOf((T \ db0[SourceDSN]) \cup (db0[SourceDSN] \ T))

\* Under every key, target d holds what it held before the pass or what the
\* source holds (a row, or none): it has one row per key, each of its rows is
\* from one of the two, and it has a row for every key that both have.
C29_EachKey ==
  \A d \in Targets :
    /\ \A r1, r2 \in db[d] : KeyOf(TheJob, r1) = KeyOf(TheJob, r2) => r1 = r2
    /\ db[d] \subseteq db0[d] \cup db0[SourceDSN]
    /\ KeysOf(db0[d]) \cap KeysOf(db0[SourceDSN]) \subseteq KeysOf(db[d])

\* No step of a pass adds a key on which target and source disagree.
C29_NoWorse ==
  \A d \in Targets :
    (seeded /\ db0' = db0 /\ db'[d] # db[d])
      => Disagree(db'[d]) \subseteq Disagree(db[d])

\* C29 (partial convergence): at every point of a pass, also after a
\* statement has failed, each key's row in the target is the one from before
\* the pass or the source's one, and the keys on which target and source
\* disagree never become more.
C29_PartialConvergence == []C29_EachKey /\ [][C29_NoWorse]_vars

\* A pass was aborted by its second statement: the target has moved towards
\* the source on one key and still disagrees with it on another.
C29_Witness ==
  \E d \in Targets :
    /\ PassOver(d) /\ passOut[d].err = "exec failed"
    /\ Len(log[d]) = 2 /\ log[d][1].ok
    /\ Disagree(db[d]) # {}
    /\ Cardinality(Disagree(db[d])) < Cardinality(Disagree(db0[d]))

\* C30 (no automatic retry): within one call of ExecJob or PingJob an
\* endpoint is connected to at most once and queried for its rows at most
\* once; after a failed connect nothing else is tried on the endpoint, after
\* a failed query no statement is run, and a failed statement is the last
\* one run and is not in the log a second time.
C30_NoRetry ==
  \A d \in Endpoints :
    /\ stat[d].conn <= 1
    /\ stat[d].query <= 1
    /\ stat[d].fault = "connect" => stat[d].query = 0 /\ log[d] = << >>
    /\ stat[d].fault = "query" => log[d] = << >>
    /\ \A i, j \in DOMAIN log[d] :
         /\ ~log[d][i].ok => i = Len(log[d])
         /\ log[d][i].stmt = log[d][j].stmt => i = j

\* The second call of a behaviour is an ExecJob that has returned: its
\* target was connected to once and loaded once, and the pass ended with its
\* second statement failing, once.
C30_Witness ==
  \E d \in Targets :
    /\ ExecReturned /\ Len(rets) = 2
    /\ stat[SourceDSN].conn = 1 /\ stat[SourceDSN].query = 1
    /\ stat[d].conn = 1 /\ stat[d].query = 1 /\ stat[d].fault = "exec"
    /\ Len(log[d]) = 2 /\ ~log[d][2].ok

\* C31 (row-set loader): a load that succeeds returns every row of the table
\* once in the list and once in the map: the map's keys are the key tuples
\* of the list's rows, taken in the configured primary-key order, each key is
\* mapped to its row, and the map has as many entries as the list has rows;
\* a load that fails returns no list and no map.
C31_RowSet ==
  fn.f = "loaded" =>
    LET res == fn.res
        idxs == getPrimaryKeyIndices(TheJob)
    IN IF res.err = NoError
       THEN /\ Len(res.entries) = Len(fn.heap)
            /\ Range(res.entries) = Range(fn.heap)
            /\ DOMAIN res.map = { pkTuple(res.entries[i], idxs) : i \in DOMAIN res.entries }
            /\ \A i \in DOMAIN res.entries :
                 /\ res.map[pkTuple(res.entries[i], idxs)] = res.entries[i]
                 /\ \A n \in DOMAIN TheJob.PrimaryKeys :
                      TupleComponent(pkTuple(res.entries[i], idxs), n)
                        = res.entries[i][ColumnIndex(TheJob.Columns, TheJob.PrimaryKeys[n])]
            /\ Cardinality(DOMAIN res.map) = Len(res.entries)
            /\ res.entries = getEntries(TheJob, Range(fn.heap)).entries
            /\ res.map = getEntries(TheJob, Range(fn.heap)).map
       ELSE res.entries = NilSlice /\ res.map = << >>

\* The scan of the second of two rows failed, with a key whose column order
\* differs from the key order: nothing was returned.
C31_Witness ==
  /\ fn.f = "loaded"
  /\ Len(fn.heap) = 2 /\ fn.fault.scan = 2 /\ ~fn.fault.query
  /\ Len(TheJob.PrimaryKeys) = 2
  /\ fn.res.err = "scan failed"
  /\ fn.res.entries = NilSlice

\* C32 (connect is idempotent): a call of connect on a table that holds a
\* handle returns nil, opens no connection, hands nothing to the driver and
\* leaves the handle as it was.
C32_ConnectIdempotent ==
  fn.f = "connect" =>
    \A i \in DOMAIN fn.calls :
      fn.calls[i].before # Nil =>
        /\ fn.calls[i].res.err = NoError
        /\ fn.calls[i].res.DB = fn.calls[i].before
        /\ fn.calls[i].res.to.driver = ""
        /\ fn.calls[i].res.opened = fn.calls[i].opened

\* connect was called twice on a mysql table without a DSN: the first call
\* opened a connection, the second found it.
C32_Witness ==
  /\ fn.f = "connect" /\ Len(fn.calls) = 2
  /\ fn.config.Driver = "mysql" /\ fn.config.DSN = ""
  /\ fn.calls[1].before = Nil /\ fn.calls[1].res.err = NoError
  /\ fn.calls[2].before = fn.calls[1].res.DB
  /\ fn.calls[2].res.DB = fn.calls[2].before
  /\ fn.opened = 1

\* The call did nothing: no connection opened, nothing handed to the driver,
\* the table still without a handle.
Untouched(call) ==
  /\ call.res.opened = call.opened
  /\ call.res.to = [driver |-> "", dsn |-> ""]
  /\ call.res.DB = Nil

\* C33 (connect without a DSN, and with one): on a table without a handle and
\* without a DSN, connect fails for sqlite3 and for every driver that is
\* neither mysql nor sqlite3, opening nothing and leaving the table without a
\* handle; a DSN that is given goes to the driver as it is, whatever the
\* other connection fields hold.
C33_ConnectDSN ==
  fn.f = "connect" =>
    \A i \in DOMAIN fn.calls :
      LET call == fn.calls[i]
      IN call.before = Nil =>
           IF fn.config.DSN = ""
           THEN /\ fn.config.Driver = "sqlite3" =>
                     /\ call.res.err = "for sqlite3, DSN must be provided directly"
                     /\ Untouched(call)
                /\ fn.config.Driver \notin {"mysql", "sqlite3"} =>
                     /\ call.res.err = "unsupported driver: " \o fn.config.Driver
                     /\ Untouched(call)
           ELSE call.res.to = [driver |-> fn.config.Driver, dsn |-> fn.config.DSN]

\* connect was called twice on a sqlite3 table with a user, a host and a port
\* and no DSN: both calls failed and opened nothing.
C33_Witness ==
  /\ fn.f = "connect" /\ Len(fn.calls) = 2
  /\ fn.config.Driver = "sqlite3" /\ fn.config.DSN = ""
  /\ fn.config.User # "" /\ fn.config.Host # "" /\ fn.config.Port # 0
  /\ fn.calls[2].res.err = "for sqlite3, DSN must be provided directly"
  /\ fn.opened = 0 /\ fn.DB = Nil

\* C34 (validated drivers): a table configuration that validation accepts
\* names the driver mysql or sqlite3, and connect on it does not fail with
\* 'unsupported driver'.
C34_ValidatedDriver ==
  (fn.f = "connect" /\ fn.calls # << >> /\ TableConfig_validate(fn.config) = NoError) =>
    /\ fn.config.Driver \in {"mysql", "sqlite3"}
    /\ \A i \in DOMAIN fn.calls :
         fn.calls[i].res.err # "unsupported driver: " \o fn.config.Driver


\* C35 (connection lifecycle in a sync): when syncTargets has returned, on
\* whichever path, no pool it opened is still open, neither the source's nor
\* a target's; and the source's pool is closed when the workers are started.
C35_PoolsClosed ==
  /\ (pc = "idle" /\ rets # << >> /\ LastRet.op = "ExecJob") =>
       \A d \in DOMAIN open : open[d] = 0
  /\ (pc = "fanout") => open[Job.Source.DSN] = 0


\* ---------------------------------------------------------------- ping, liveness
\* The endpoints of the job of the fan-out scenario.
PingEndpoints == {SourceConfig.DSN} \cup FanTargets

\* The check goroutine of endpoint d: go func() { resultChan <- config.ping(columns) }().
Check(d) == PingConnect(d) \/ PingQuery(d)

\* The check of endpoint d is running and pingWithTimeout has returned
\* without its outcome.
Abandoned(d) == chk[d] \in {"connect", "query"} /\ ~Receiving(d)

\* C36 (abandoned check): a check that pingWithTimeout no longer waits for is
\* never blocked: its next step, the send of its outcome included, can be
\* taken; and once the check of an endpoint that was reported on the timer
\* alone has ended, its outcome is in the channel and its connection is closed.
C36_AbandonedCheckEnds ==
  \A d \in PingEndpoints :
    /\ Abandoned(d) => ENABLED Check(d)
    /\ (chk[d] = "done" /\ stat[d].ready = "timer") =>
         (pingChan[d] # "empty" /\ open[d] = 0)

\* PingJob has returned, and the check of an endpoint whose timer fired first
\* has since ended, its successful outcome left in the channel, its connection
\* closed.
C36_Witness ==
  /\ pc = "idle" /\ rets # << >>
  /\ \E d \in PingEndpoints :
       /\ stat[d].first = "timer" /\ stat[d].ready = "timer" /\ chk[d] = "done"
       /\ pingChan[d] = NoError /\ open[d] = 0

\* A step of PingJob that is not a check's: of the calling goroutine, of a
\* target worker, or the expiry of a context's timer.
PingProgress ==
  \/ PingSource \/ PingReturn
  \/ \E d \in PingEndpoints : TimerFire(d)
  \/ \E d \in FanTargets : PingTarget(d)

\* PingJob under a scheduler that keeps running the goroutines of PingJob
\* and the runtime's timers while one of them can take a step; the checks are
\* promised nothing: a connect or a query may never return.
SpecPingHang == SpecPing /\ WF_vars(PingProgress)

\* The check of endpoint d has not produced its outcome.
Hung(d) == chk[d] \in {"connect", "query"}

\* PingJob has returned 1 + N results, a timeout for every endpoint whose
\* check is still hanging.
ReturnedAll ==
  /\ pc = "idle" /\ rets # << >> /\ LastRet.op = "PingJob" /\ LastRet.err = NoError
  /\ Len(LastRet.results) = 1 + NumTargets
  /\ \A i \in DOMAIN LastRet.results :
       Hung(LastRet.results[i].Config.DSN) => LastRet.results[i].Error = TimedOut

\* C37 (PingJob returns): a PingJob that has started its probes returns, also
\* when no check ever finishes: with 1 + N results, each a timeout for an
\* endpoint whose check hangs.
C37_PingReturns == (pc = "pingsrc") ~> ReturnedAll

\* PingJob has returned while the check of every endpoint is still hanging:
\* 1 + N results, every one a timeout.
C37_Witness ==
  /\ ReturnedAll
  /\ \A d \in PingEndpoints : Hung(d)
  /\ \A i \in DOMAIN LastRet.results : LastRet.results[i].Error = TimedOut


\* The source's probe of the PingJob that returned last failed: its error is
\* what the call returned, or is in the first result.
SourceProbeFailed ==
  \/ LastRet.err # NoError
  \/ LastRet.results # << >> /\ LastRet.results[1].Error # NoError

\* C38 (source failure does not abort a ping): when PingJob has returned for
\* a configured job whose source probe failed or timed out, its error is nil,
\* the source's result comes first, and every target was probed and has its
\* result.
C38_SourceFailureNoAbort ==
  (/\ pc = "idle" /\ rets # << >> /\ LastRet.op = "PingJob"
   /\ LastRet.err # "job not found" /\ SourceProbeFailed) =>
    /\ LastRet.err = NoError
    /\ Len(LastRet.results) = 1 + Len(Job.Targets)
    /\ LastRet.results[1].Config = Job.Source
    /\ \A d \in TargetDSNs(Job) :
         /\ chk[d] # "none"
         /\ \E i \in 2..Len(LastRet.results) : LastRet.results[i].Config.DSN = d

\* PingJob returned nil and 1 + N results: the source's is a timeout, a
\* target's is a success, another target's a failed connect.
C38_Witness ==
  /\ pc = "idle" /\ rets # << >> /\ LastRet.op = "PingJob" /\ LastRet.err = NoError
  /\ Len(LastRet.results) = 1 + NumTargets
  /\ LastRet.results[1].Error = TimedOut
  /\ \E i, j \in 2..Len(LastRet.results) :
       /\ LastRet.results[i].Error = NoError
       /\ LastRet.results[j].Error = "connect failed"

====
